---- MODULE Spec2Model ----
(***************************************************************************)
(* Verification model of weaboo-api: the archival queue and store (SQL     *)
(* functions of the HuggingFace storage migration), the streaming          *)
(* enrichment that feeds the queue, and the request lock of the mapping    *)
(* resolver.                                                               *)
(***************************************************************************)
EXTENDS Integers, Sequences, FiniteSets, TLC

\* ------------------------------------------------------------------
\* Bounds of the model
\* ------------------------------------------------------------------
MaxRows == 2
MaxStoreRows == 1
MaxClock == 1
MaxRetry == 1
MaxLimit == 2
MaxReqs == 2
MaxSReqs == 2
MaxServers == 1
MaxApiTicks == 2
MaxCallers == 2
MaxCalls == 3
MaxThrottleTicks == 4

\* ------------------------------------------------------------------
\* Value universes
\* ------------------------------------------------------------------
NULL == "NULL"
MalIds == {55825}
Episodes == {1}
Providers == {"animasu", "samehadaku"}
Resolutions == {"720p", NULL}
VideoUrls == {"https://a/", "https://b/"}
HfUrls == {"https://hf/1"}
Errors == {"err"}
Statuses == {"pending", "downloading", "uploading", "ready", "failed"}
Workers == {"w1", "w2"}
SlugKey == "animasu:jigokuraku-s2"
MalKey == "mal:55825"
LockKeys == {SlugKey, MalKey}
Outcomes == {"mapping", "none", "throw"}
MalTitle == "Jigokuraku 2nd Season"
\* The player options of the episode page of a provider, in page order.
PageOptions == {1, 2}
\* The locals of a discovery before it runs: no pHash, no lookup made, no
\* match (matchResult.method 'none', malId and jikanAnime null), no slugs, no
\* result yet.
NoLocals ==
  [pHash |-> NULL, lookup |-> NULL, existing |-> NULL, method |-> "none",
   jikanAnime |-> FALSE, searched |-> FALSE,
   slugSamehadaku |-> NULL, slugAnimasu |-> NULL,
   result |-> NULL, thrown |-> <<>>]
Reqs == 1..MaxReqs
SReqs == 1..MaxSReqs
JCallers == 1..MaxCallers
JIKAN_RATE_LIMIT_MS == 400
\* Date.now() when the process starts; the clocks of the model count from it.
ProcessStartMs == 1000000
ThrottleTickMs == JIKAN_RATE_LIMIT_MS \div 2
MAX_RETRIES == 3
RETRYABLE_CODES == {"ECONNREFUSED", "ECONNRESET", "ETIMEDOUT", "ENOTFOUND"}
\* The two fetchHTML modules of the repository: the one with the retry loop
\* and the one src/services/streaming.ts imports from ../utils/fetcher.
FetchImpls == {"retrying", "plain"}
\* What axios.get can do: answer, or fail with an error code and, when the
\* server answered, a status (0 when there is no response).
FetchOutcomes ==
  {[ok |-> TRUE, code |-> "", status |-> 200],
   [ok |-> FALSE, code |-> "ECONNRESET", status |-> 0],
   [ok |-> FALSE, code |-> "ECONNREFUSED", status |-> 0],
   [ok |-> FALSE, code |-> "ETIMEDOUT", status |-> 0],
   [ok |-> FALSE, code |-> "ECONNABORTED", status |-> 0],
   [ok |-> FALSE, code |-> "ERR_BAD_RESPONSE", status |-> 503],
   [ok |-> FALSE, code |-> "ERR_BAD_REQUEST", status |-> 404]}
EmbedUrls == {"https://mega.nz/embed/x", "https://filedon.co/embed/y"}
CdnUrls == {"https://cdn/v.mp4"}
CF_WORKERS_BASE_URL == "https://cf.example"
EPISODE_CACHE_TTL_MS == 20 * 60 * 1000
TickMs == EPISODE_CACHE_TTL_MS \div 2
\* The slugs of the mapping the streaming requests are made for.
StreamSlugs == [animasu |-> "jigokuraku-s2", samehadaku |-> NULL]

TaskIds == Providers \X (1..MaxServers)

Keys == [mal_id : MalIds, episode : Episodes, provider : Providers, resolution : Resolutions]
QueueKeys == {k \in Keys : k.provider = "animasu"}
TaggedKeys == {k \in Keys : k.resolution # NULL}

VARIABLES
  queue,      \* table video_queue: sequence of rows, the index is the row id
  store,      \* table video_store: sequence of rows
  clock,      \* the database clock read by NOW()
  claimPc,    \* per worker: position inside a claim_pending_videos transaction
  claimRows,  \* per worker: row ids locked (FOR UPDATE) by the claim in flight
  mapping,          \* table anime_mappings: the rows stored (one anime in the model)
  lastUpsert,       \* the parameters of the latest upsert_anime_mapping call (none before the first)
  dPc,              \* the detail request of the discovery model: position in controller and discovery
  dKind,            \* that request: by provider slug (getAnime) or by MAL id (getAnimeByMalId)
  dLocals,          \* that request's discovery: its local variables and the calls it made
  dResponse,        \* that request: status and message of the response, status 0 before
  iPc,              \* the streaming request of the isolation model: idle, scrape, enrich, done
  iProv,            \* per provider: position of its scrape, options found, servers, failure
  iStep,            \* per provider and server: resolve, resolved, store, done (none: no server)
  iFail,            \* the resolver and webhook failures that happened, by provider and server
  iResponse,        \* status and data of the response, status 0 before
  enrichmentLocks,  \* the request-lock Map: lock key -> job id, 0 when absent
  jobs,             \* the discovery promises created so far, in creation order
  reqPc,            \* per detail request: position in the controller
  reqKey,           \* per detail request: its lock key (getAnime or getAnimeByMalId)
  reqHit,           \* per detail request: what its store lookup read
  reqJob,           \* per detail request: the promise it awaits, 0 when none
  reqStatus,        \* per detail request: HTTP status of the response, 0 before
  reqPeers,         \* per detail request: the requests in flight when it started
  apiClock,         \* Date.now() of the API process, in milliseconds
  streamingCache,   \* the scrape cache entry of the episode: scrape object and expiry
                    \* (setAt, the time of streamingCache.set, is kept for the
                    \* statement of the expiry property; the code does not store it)
  scrapes,          \* the scrape result objects created so far (shared, mutated in place)
  sPc,              \* per streaming request: position in getStreamingLinks
  sNow,             \* per streaming request: the value of now it read on entry
  sScrape,          \* per streaming request: the scrape object it enriches, 0 before
  sTask,            \* per streaming request and server: position in the enrichment callback,
                    \* the queue entry it read, whether it consulted the store
  sArchived,        \* per streaming request: the keys committed to the store before it started
  rpcs,             \* enqueue_video calls sent and not yet executed
  webhooks,         \* webhook payloads sent, in order
  lastRequestTime,  \* the throttle's time of the last MAL request, relative to process start
  jPc,              \* per MAL caller: position in jikanThrottle
  jWake,            \* per MAL caller: the time its setTimeout is due
  jikanLog,         \* start times of the outbound MAL requests, in order
  fetchImpl,        \* the fetchHTML module the call in progress runs
  fetchPc,          \* position of the fetchHTML call: idle, running, returned, thrown
  invStatus,        \* the status of the latest answer of the invalidate endpoint, 0 before
  pxPc,             \* the proxy worker's position: idle, lookup, proxyStream, proxyM3u8 or done
  pxRequest,        \* the request the worker is answering
  pxTarget,         \* the URL the worker fetches upstream
  pxUpstream,       \* what the upstream did with the fetch
  pxResponse,       \* the worker's response
  episodeCache,     \* the episode cache of the API process: per provider, whether a list is cached and when
  malMetadata,      \* whether the store holds the MAL metadata of the anime
  gPc,              \* the detail request's position: idle, resolve, meta, episodes or done
  gHit,             \* mappingCached of the detail request
  gOutbound,        \* the outbound requests the detail request has made
  gResponse,        \* the response of the detail request
  fetchAttempts     \* the attempts of the call: wait before the attempt and its outcome

dbVars == <<queue, store, clock, claimPc, claimRows>>
lockVars == <<mapping, enrichmentLocks, jobs, reqPc, reqKey, reqHit, reqJob, reqStatus, reqPeers>>
strVars == <<apiClock, streamingCache, scrapes, sPc, sNow, sScrape, sTask, sArchived, rpcs, webhooks>>
jikVars == <<lastRequestTime, jPc, jWake, jikanLog>>
fetVars == <<fetchImpl, fetchPc, fetchAttempts>>
mapVars == <<lastUpsert>>
disVars == <<dPc, dKind, dLocals, dResponse>>
isoVars == <<iPc, iProv, iStep, iFail, iResponse>>
invVars == <<invStatus>>
prxVars == <<pxPc, pxRequest, pxTarget, pxUpstream, pxResponse>>
detVars == <<episodeCache, malMetadata, gPc, gHit, gOutbound, gResponse>>
vars == <<dbVars, lockVars, strVars, jikVars, fetVars, mapVars, disVars, isoVars, invVars, prxVars, detVars>>
\* What the actions of one part leave alone.
notDb == <<lockVars, strVars, jikVars, fetVars, mapVars, disVars, isoVars, invVars, prxVars, detVars>>
notLock == <<dbVars, strVars, jikVars, fetVars, disVars, isoVars, invVars, prxVars, detVars>>
notLockMap == <<notLock, mapVars>>
notStr == <<dbVars, lockVars, jikVars, fetVars, mapVars, disVars, isoVars, invVars, prxVars, detVars>>
notJik == <<dbVars, lockVars, strVars, fetVars, mapVars, disVars, isoVars, invVars, prxVars, detVars>>
notFet == <<dbVars, lockVars, strVars, jikVars, mapVars, disVars, isoVars, invVars, prxVars, detVars>>
notDbStr == <<lockVars, jikVars, fetVars, mapVars, disVars, isoVars, invVars, prxVars, detVars>>

\* ------------------------------------------------------------------
\* Stream proxy (Cloudflare worker): strings, URLs and pure functions
\* ------------------------------------------------------------------
\* A string of the proxy is the sequence of its characters, so that
\* encoding, decoding and line rewriting are computed character by
\* character.
Concat(a, b, c) == a \o b \o c

StartsWith(s, prefix) == Len(s) >= Len(prefix) /\ SubSeq(s, 1, Len(prefix)) = prefix

EndsWith(s, suffix) == Len(s) >= Len(suffix) /\ SubSeq(s, Len(s) - Len(suffix) + 1, Len(s)) = suffix

Includes(s, part) == \E i \in 1..(Len(s) - Len(part) + 1) : SubSeq(s, i, i + Len(part) - 1) = part

\* The first index from `from` on whose character is in `chars`, Len(s) + 1
\* when there is none.
FirstIndex(s, from, chars) ==
  IF \E i \in from..Len(s) : s[i] \in chars
  THEN CHOOSE i \in from..Len(s) : s[i] \in chars /\ \A j \in from..(i - 1) : s[j] \notin chars
  ELSE Len(s) + 1

\* String.prototype.split on one character.
RECURSIVE Split(_, _)
Split(s, c) ==
  LET i == FirstIndex(s, 1, {c})
  IN IF i > Len(s) THEN <<s>> ELSE <<SubSeq(s, 1, i - 1)>> \o Split(SubSeq(s, i + 1, Len(s)), c)

\* String.prototype.trim.
Whitespace == {" "}
RECURSIVE trim(_)
trim(s) ==
  IF s = <<>> THEN s
  ELSE IF Head(s) \in Whitespace THEN trim(Tail(s))
  ELSE IF s[Len(s)] \in Whitespace THEN trim(SubSeq(s, 1, Len(s) - 1))
  ELSE s

HexDigits == {"0", "1", "2", "3", "4", "5", "6", "7", "8", "9",
              "A", "B", "C", "D", "E", "F", "a", "b", "c", "d", "e", "f"}

\* The escapes of the characters of the model that encodeURIComponent
\* escapes; letters, digits and "." "-" "_" are left as they are.
PercentCode ==
  (":" :> <<"3", "A">>) @@ ("/" :> <<"2", "F">>) @@ ("?" :> <<"3", "F">>) @@
  ("=" :> <<"3", "D">>) @@ ("%" :> <<"2", "5">>) @@ (" " :> <<"2", "0">>) @@
  ("&" :> <<"2", "6">>) @@ ("+" :> <<"2", "B">>) @@ ("#" :> <<"2", "3">>) @@
  ("\"" :> <<"2", "2">>)

\* encodeURIComponent, character by character.
RECURSIVE EncodeURIComponent(_)
EncodeURIComponent(s) ==
  IF s = <<>> THEN <<>>
  ELSE (IF Head(s) \in DOMAIN PercentCode THEN <<"%">> \o PercentCode[Head(s)] ELSE <<Head(s)>>)
       \o EncodeURIComponent(Tail(s))

\* The character of an escaped byte: the inverse of PercentCode (the URLs
\* of the model form no other byte).
ByteChar(hex) ==
  IF \E c \in DOMAIN PercentCode : PercentCode[c] = hex
  THEN CHOOSE c \in DOMAIN PercentCode : PercentCode[c] = hex
  ELSE "byte"

IsEscape(s) == Len(s) >= 3 /\ s[1] = "%" /\ s[2] \in HexDigits /\ s[3] \in HexDigits

\* decodeURIComponent: every "%" must start an escape, otherwise the call
\* throws URIError (ok = FALSE).
RECURSIVE decodeURIComponent(_)
decodeURIComponent(s) ==
  IF s = <<>> THEN [ok |-> TRUE, value |-> <<>>]
  ELSE IF IsEscape(s)
  THEN LET rest == decodeURIComponent(SubSeq(s, 4, Len(s)))
       IN [ok |-> rest.ok, value |-> <<ByteChar(<<s[2], s[3]>>)>> \o rest.value]
  ELSE IF Head(s) = "%" THEN [ok |-> FALSE, value |-> <<>>]
  ELSE LET rest == decodeURIComponent(Tail(s))
       IN [ok |-> rest.ok, value |-> <<Head(s)>> \o rest.value]

\* The decoding URLSearchParams applies to names and values: "+" is a
\* space, escapes are decoded, a "%" that starts no escape is kept.
RECURSIVE formDecode(_)
formDecode(s) ==
  IF s = <<>> THEN <<>>
  ELSE IF IsEscape(s) THEN <<ByteChar(<<s[2], s[3]>>)>> \o formDecode(SubSeq(s, 4, Len(s)))
  ELSE IF Head(s) = "+" THEN <<" ">> \o formDecode(Tail(s))
  ELSE <<Head(s)>> \o formDecode(Tail(s))

\* url.searchParams.get(name) on the query of the request: the value of the
\* first pair of that name, null (found = FALSE) when there is none.
searchParamsGet(query, name) ==
  LET pairs == IF query = <<>> THEN <<>> ELSE Split(query, "&")
      eq(p) == FirstIndex(p, 1, {"="})
      nameOf(p) == formDecode(SubSeq(p, 1, eq(p) - 1))
      valueOf(p) == formDecode(SubSeq(p, eq(p) + 1, Len(p)))
      hits == {i \in 1..Len(pairs) : nameOf(pairs[i]) = name}
  IN IF hits = {} THEN [found |-> FALSE, value |-> <<>>]
     ELSE [found |-> TRUE, value |-> valueOf(pairs[CHOOSE i \in hits : \A j \in hits : i <= j])]

\* new URL(s) accepts s: the URLs of the model are http and https URLs with
\* a host.
HostStart(u) == IF StartsWith(u, <<"h", "t", "t", "p", "s", ":", "/", "/">>) THEN 9 ELSE 8

HostEnd(u) == FirstIndex(u, HostStart(u), {"/", "?", "#"})

IsUrl(s) ==
  /\ StartsWith(s, <<"h", "t", "t", "p", ":", "/", "/">>) \/ StartsWith(s, <<"h", "t", "t", "p", "s", ":", "/", "/">>)
  /\ HostEnd(s) > HostStart(s)

Origin(u) == SubSeq(u, 1, HostEnd(u) - 1)

Hostname(u) == SubSeq(u, HostStart(u), HostEnd(u) - 1)

Pathname(u) ==
  LET pathEnd == FirstIndex(u, HostEnd(u), {"?", "#"})
  IN IF pathEnd = HostEnd(u) THEN <<"/">> ELSE SubSeq(u, HostEnd(u), pathEnd - 1)

\* pathname.replace(/\/[^/]*$/, ''): the path without its last segment.
StripLastSegment(path) ==
  LET slashes == {i \in 1..Len(path) : path[i] = "/"}
  IN IF slashes = {} THEN path
     ELSE SubSeq(path, 1, (CHOOSE i \in slashes : \A j \in slashes : j <= i) - 1)

isHuggingFaceUrl(url) ==
  /\ IsUrl(url)
  /\ Hostname(url) = <<"h", "u", "g", "g", "i", "n", "g", "f", "a", "c", "e", ".", "c", "o">> \/ EndsWith(Hostname(url), <<".", "h", "u", "g", "g", "i", "n", "g", "f", "a", "c", "e", ".", "c", "o">>)

\* The emitted form `${base}/proxy?url=${encodeURIComponent(u)}` of the
\* stream-URL builder and of the playlist rewriter.
ProxyQuery(u) == <<"u", "r", "l", "=">> \o EncodeURIComponent(u)

ProxyUrl(base, u) == Concat(base, <<"/", "p", "r", "o", "x", "y", "?">>, ProxyQuery(u))

\* One line of proxyM3u8's map over the lines of the playlist.
rewriteLine(line, targetUrl, workerBase) ==
  LET trimmed == trim(line)
      basePath == Origin(targetUrl) \o StripLastSegment(Pathname(targetUrl))
      absoluteUrl == IF StartsWith(trimmed, <<"h", "t", "t", "p">>) THEN trimmed
                     ELSE IF StartsWith(trimmed, <<"/">>) THEN Origin(targetUrl) \o trimmed
                     ELSE Concat(basePath, <<"/">>, trimmed)
  IN IF trimmed = <<>> \/ StartsWith(trimmed, <<"#">>) THEN line
     ELSE ProxyUrl(workerBase, absoluteUrl)

\* text.split('\n').map(...).join('\n'): a body is the sequence of its lines.
rewritePlaylist(lines, targetUrl, workerBase) ==
  [i \in 1..Len(lines) |-> rewriteLine(lines[i], targetUrl, workerBase)]

\* ---- the values of the proxy model ----
MaxTail == 3
MaxLines == 2

WorkerBase == <<"h", "t", "t", "p", "s", ":", "/", "/", "w">>
Mp4Url == <<"h", "t", "t", "p", ":", "/", "/", "c", "/", "v", ".", "m", "p", "4">>
PlaylistUrl == <<"h", "t", "t", "p", ":", "/", "/", "c", "/", "p", "/", "i", ".", "m", "3", "u", "8", "?", "t", "=", "1">>
HfUrl == <<"h", "t", "t", "p", "s", ":", "/", "/", "h", "u", "g", "g", "i", "n", "g", "f", "a", "c", "e", ".", "c", "o", "/", "d", "/", "v", ".", "m", "p", "4">>
HfPlaylistUrl == <<"h", "t", "t", "p", "s", ":", "/", "/", "h", "u", "g", "g", "i", "n", "g", "f", "a", "c", "e", ".", "c", "o", "/", "d", "/", "i", ".", "m", "3", "u", "8">>
CdnLfsUrl == <<"h", "t", "t", "p", "s", ":", "/", "/", "c", "d", "n", "-", "l", "f", "s", ".", "h", "u", "g", "g", "i", "n", "g", "f", "a", "c", "e", ".", "c", "o", "/", "x">>
FixedUrls == {Mp4Url, PlaylistUrl, HfUrl}

\* Absolute URLs whose path ends in every string of up to MaxTail of these
\* characters: plain, with a query string, with an escape ("%22") and
\* with a "%" that starts no escape.
TailChars == {"%", "2", "?", "="}
RECURSIVE Strings(_, _)
Strings(chars, n) ==
  IF n = 0 THEN {<<>>}
  ELSE Strings(chars, n - 1) \cup {<<c>> \o s : c \in chars, s \in Strings(chars, n - 1)}

TailUrls == {<<"h", "t", "t", "p", ":", "/", "/", "c", "/", "v">> \o t : t \in Strings(TailChars, MaxTail)}

\* Playlists of up to MaxLines lines: a tag, a blank line, an absolute URI,
\* a URI relative to the root and a URI relative to the playlist.
PlaylistLines == {<<"#", "E", "X", "T">>, <<>>, <<"h", "t", "t", "p", ":", "/", "/", "s", "/", "a", ".", "t", "s">>, <<"/", "b", ".", "t", "s">>, <<"c", ".", "m", "3", "u", "8", "?", "t", "=", "X">>}
Playlists == UNION {[1..n -> PlaylistLines] : n \in 0..MaxLines}
Mp4Body == <<<<"m", "p", "4">>>>

\* Requests: the emitted proxy URL of every URL of the model, a proxy
\* request without and with a broken url parameter, preflight, health, the
\* stream route and an unknown path.
StreamPath == "/stream/55825/1/animasu/720p"
ProxyRequests == {[method |-> "GET", pathname |-> "/proxy", query |-> ProxyQuery(u)] : u \in FixedUrls \cup TailUrls}
OtherRequests ==
  {[method |-> "GET", pathname |-> "/proxy", query |-> <<>>],
   [method |-> "GET", pathname |-> "/proxy", query |-> <<"u", "r", "l", "=", "v", ".", "m", "p", "4">>],
   [method |-> "OPTIONS", pathname |-> "/proxy", query |-> <<>>],
   [method |-> "GET", pathname |-> "/health", query |-> <<>>],
   [method |-> "GET", pathname |-> StreamPath, query |-> <<>>],
   [method |-> "GET", pathname |-> "/", query |-> <<>>]}
Requests == ProxyRequests \cup OtherRequests
NoRequest == [method |-> NULL, pathname |-> NULL, query |-> <<>>]

\* What the upstream does with the worker's fetch: the connection fails, or
\* it answers with a status, the URL the redirects ended at, its headers
\* (NULL: not sent) and its body.
Upstream(connects, status, url, ct, cl, cr, ar, cd, body) ==
  [connects |-> connects, status |-> status, url |-> url, contentType |-> ct,
   contentLength |-> cl, contentRange |-> cr, acceptRanges |-> ar,
   contentDisposition |-> cd, body |-> body]

NoUpstream == Upstream(FALSE, 0, <<>>, NULL, NULL, NULL, NULL, NULL, <<>>)

MediaUpstreams ==
  {Upstream(TRUE, status, url, ct, IF status = 404 THEN NULL ELSE "1024",
            IF status = 206 THEN "bytes 0-1023/4096" ELSE NULL, ar, cd, Mp4Body) :
     status \in {200, 206, 404}, url \in {<<>>, CdnLfsUrl},
     ct \in {"application/octet-stream", "application/x-mpegurl"},
     ar \in {"bytes", "none", NULL}, cd \in {"attachment; filename=v.mp4", NULL}}

PlaylistUpstreams ==
  {Upstream(TRUE, status, <<>>, "application/vnd.apple.mpegurl", NULL, NULL, NULL, NULL, body) :
     status \in {200, 404}, body \in Playlists}

\* The upstreams tried on every URL of the model; the others are tried on
\* the URLs of the stored and queued rows.
PlainUpstreams ==
  {NoUpstream, Upstream(TRUE, 200, <<>>, "application/octet-stream", "1024", NULL, "bytes", NULL, Mp4Body)}

Upstreams == {NoUpstream} \cup MediaUpstreams \cup PlaylistUpstreams

\* The rows supabaseSelect returns for the stream route: the archived row,
\* the queued row, null (<<>>) when there is none or the store did not
\* answer.
StoredRows == {<<>>, HfUrl, HfPlaylistUrl}
QueuedRows == {<<>>, Mp4Url, PlaylistUrl}

\* ---- responses ----
Response(status, ct, cl, cr, ar, cd, allowOrigin, body) ==
  [status |-> status, contentType |-> ct, contentLength |-> cl, contentRange |-> cr,
   acceptRanges |-> ar, contentDisposition |-> cd, allowOrigin |-> allowOrigin, body |-> body]

NoResponse == Response(0, NULL, NULL, NULL, NULL, NULL, NULL, <<>>)

TextResponse(status, text) == Response(status, "text/plain;charset=UTF-8", NULL, NULL, NULL, NULL, NULL, <<text>>)

JsonResponse(status, text) == Response(status, "application/json", NULL, NULL, NULL, NULL, "*", <<text>>)

\* What the Workers runtime answers when the handler's promise rejects.
WorkerThrew == Response(500, NULL, NULL, NULL, NULL, NULL, NULL, <<<<"E", "r", "r", "o", "r", " ", "1", "1", "0", "1">>>>)

Ok(upstream) == upstream.status >= 200 /\ upstream.status <= 299

IsHlsType(contentType) == contentType \in {"application/vnd.apple.mpegurl", "application/x-mpegurl"}

\* The URL proxyStream reads the bytes from.
finalUrl(targetUrl, upstream) ==
  IF isHuggingFaceUrl(targetUrl) /\ upstream.connects /\ upstream.url # <<>> /\ upstream.url # targetUrl
  THEN upstream.url
  ELSE targetUrl

\* proxyStream, the branch of HuggingFace URLs (inside try/catch).
hfStream(upstream) ==
  IF ~upstream.connects
  THEN TextResponse(502, <<"F", "a", "i", "l", "e", "d", " ", "t", "o", " ", "r", "e", "s", "o", "l", "v", "e", " ", "H", "u", "g", "g", "i", "n", "g", "F", "a", "c", "e", " ", "U", "R", "L">>)
  ELSE Response(upstream.status, "video/mp4", upstream.contentLength, upstream.contentRange,
                IF upstream.acceptRanges = NULL THEN "bytes" ELSE upstream.acceptRanges,
                "inline", "*", upstream.body)

\* proxyStream, the branch of every other URL: the fetch is not inside a
\* try, so a failed connection rejects the handler's promise.
directStream(targetUrl, upstream) ==
  IF ~upstream.connects
  THEN WorkerThrew
  ELSE Response(upstream.status,
                IF IsHlsType(upstream.contentType) \/ Includes(targetUrl, <<".", "m", "3", "u", "8">>)
                THEN "application/vnd.apple.mpegurl" ELSE "video/mp4",
                upstream.contentLength, upstream.contentRange, upstream.acceptRanges,
                "inline", "*", upstream.body)

proxyStream(targetUrl, upstream) ==
  IF isHuggingFaceUrl(targetUrl) THEN hfStream(upstream) ELSE directStream(targetUrl, upstream)

proxyM3u8(targetUrl, workerBase, upstream) ==
  IF ~upstream.connects THEN WorkerThrew
  ELSE IF ~Ok(upstream) THEN TextResponse(502, <<"F", "a", "i", "l", "e", "d", " ", "t", "o", " ", "f", "e", "t", "c", "h", " ", "p", "l", "a", "y", "l", "i", "s", "t">>)
  ELSE Response(200, "application/vnd.apple.mpegurl", NULL, NULL, NULL, NULL, "*",
                rewritePlaylist(upstream.body, targetUrl, workerBase))

\* The /proxy route up to the call of proxyStream: the target, or the 400.
proxyTarget(query) ==
  LET targetRaw == searchParamsGet(query, <<"u", "r", "l">>)
      targetUrl == decodeURIComponent(targetRaw.value)
  IN IF ~targetRaw.found THEN [ok |-> FALSE, value |-> <<"M", "i", "s", "s", "i", "n", "g", " ", "u", "r", "l", " ", "p", "a", "r", "a", "m">>]
     ELSE IF ~targetUrl.ok \/ ~IsUrl(targetUrl.value) THEN [ok |-> FALSE, value |-> <<"I", "n", "v", "a", "l", "i", "d", " ", "u", "r", "l", " ", "p", "a", "r", "a", "m">>]
     ELSE targetUrl

\* ------------------------------------------------------------------
\* SQL helpers
\* ------------------------------------------------------------------
\* SQL equality: a comparison with NULL is never true.
SqlEq(a, b) == a # NULL /\ b # NULL /\ a = b

KeyOf(row) ==
  [mal_id |-> row.mal_id, episode |-> row.episode,
   provider |-> row.provider, resolution |-> row.resolution]

\* Rows of a table that collide with key k under the UNIQUE constraint
\* (mal_id, episode, provider, resolution): all four columns SQL-equal
\* (the first three are NOT NULL, resolution is nullable).
UniqueConflicts(tbl, k) ==
  {i \in DOMAIN tbl :
     /\ tbl[i].mal_id = k.mal_id
     /\ tbl[i].episode = k.episode
     /\ tbl[i].provider = k.provider
     /\ SqlEq(tbl[i].resolution, k.resolution)}

\* Rows matched by the filter the code uses to read or mark a key:
\* resolution = p OR (resolution IS NULL AND p IS NULL).
RowsOfKey(tbl, k) ==
  {i \in DOMAIN tbl :
     /\ tbl[i].mal_id = k.mal_id
     /\ tbl[i].episode = k.episode
     /\ tbl[i].provider = k.provider
     /\ tbl[i].resolution = k.resolution}

\* Row ids locked by a claim transaction in flight.
LockedRows == UNION {claimRows[w] : w \in Workers}

\* ------------------------------------------------------------------
\* enqueue_video
\* ------------------------------------------------------------------
NewQueueRow(k, url) ==
  [mal_id |-> k.mal_id, episode |-> k.episode, provider |-> k.provider,
   resolution |-> k.resolution, video_url |-> url, status |-> "pending",
   retry_count |-> 0, error_message |-> NULL,
   created_at |-> clock, updated_at |-> clock]

EnqueueConflictUpdate(row, url) ==
  [row EXCEPT
     !.video_url = IF row.status = "ready" THEN row.video_url ELSE url,
     !.status = IF row.status = "failed" THEN "pending" ELSE row.status,
     !.updated_at = clock]

\* The table after enqueue_video(k, url).
enqueue_video(k, url) ==
  LET c == UniqueConflicts(queue, k) IN
  IF c = {}
  THEN Append(queue, NewQueueRow(k, url))
  ELSE [i \in DOMAIN queue |->
          IF i \in c THEN EnqueueConflictUpdate(queue[i], url) ELSE queue[i]]

Enqueue(k, url) ==
  /\ UniqueConflicts(queue, k) \cap LockedRows = {}
  /\ UniqueConflicts(queue, k) = {} => Len(queue) < MaxRows
  /\ queue' = enqueue_video(k, url)
  /\ UNCHANGED <<store, clock, claimPc, claimRows, notDb>>

\* enqueue_video called by the streaming enrichment: the call that was sent
\* earlier executes now.
RpcEnqueue(rpc) ==
  /\ rpc \in rpcs
  /\ UniqueConflicts(queue, rpc.key) \cap LockedRows = {}
  /\ UniqueConflicts(queue, rpc.key) = {} => Len(queue) < MaxRows
  /\ queue' = enqueue_video(rpc.key, rpc.video_url)
  /\ rpcs' = rpcs \ {rpc}
  /\ UNCHANGED <<store, clock, claimPc, claimRows, notDbStr>>
  /\ UNCHANGED <<apiClock, streamingCache, scrapes, sPc, sNow, sScrape, sTask, sArchived, webhooks>>

\* ------------------------------------------------------------------
\* claim_pending_videos
\* ------------------------------------------------------------------
\* The sub-select without SKIP LOCKED semantics: rows locked by another
\* claim are not skipped.
ClaimCandidatesNoSkip ==
  {i \in DOMAIN queue : queue[i].status = "pending"}

\* Rows the sub-select may lock: pending in their latest committed version
\* (READ COMMITTED re-checks the WHERE clause on the version it locks) and
\* not locked by another transaction (SKIP LOCKED).
ClaimCandidates ==
  {i \in DOMAIN queue : queue[i].status = "pending" /\ i \notin LockedRows}

\* ORDER BY created_at ASC LIMIT n: the n oldest candidates, ties in any order.
OldestFirst(cands, n, S) ==
  /\ S \subseteq cands
  /\ Cardinality(S) = IF Cardinality(cands) < n THEN Cardinality(cands) ELSE n
  /\ \A i \in S, j \in cands \ S : queue[i].created_at <= queue[j].created_at

\* The sub-select: SELECT id ... FOR UPDATE SKIP LOCKED takes the row locks.
ClaimLock(w, limit) ==
  /\ claimPc[w] = "idle"
  /\ \E S \in SUBSET ClaimCandidates :
       /\ OldestFirst(ClaimCandidates, limit, S)
       /\ claimRows' = [claimRows EXCEPT ![w] = S]
  /\ claimPc' = [claimPc EXCEPT ![w] = "locked"]
  /\ UNCHANGED <<queue, store, clock, notDb>>

\* The UPDATE ... RETURNING * and the commit, which releases the row locks.
ClaimCommit(w) ==
  /\ claimPc[w] = "locked"
  /\ queue' = [i \in DOMAIN queue |->
                 IF i \in claimRows[w]
                 THEN [queue[i] EXCEPT !.status = "downloading", !.updated_at = clock]
                 ELSE queue[i]]
  /\ claimPc' = [claimPc EXCEPT ![w] = "idle"]
  /\ claimRows' = [claimRows EXCEPT ![w] = {}]
  /\ UNCHANGED <<store, clock, notDb>>

\* ------------------------------------------------------------------
\* update_video_queue_status
\* ------------------------------------------------------------------
\* The update with retry_count raised whatever the status written.
update_video_queue_status_always_counts(row, status, error) ==
  [row EXCEPT
     !.status = status,
     !.error_message = IF error # NULL THEN error ELSE row.error_message,
     !.retry_count = row.retry_count + 1,
     !.updated_at = clock]

update_video_queue_status(row, status, error) ==
  [row EXCEPT
     !.status = status,
     !.error_message = IF error # NULL THEN error ELSE row.error_message,
     !.retry_count = IF status = "failed" THEN row.retry_count + 1 ELSE row.retry_count,
     !.updated_at = clock]

UpdateStatus(id, status, error) ==
  /\ id \in DOMAIN queue
  /\ id \notin LockedRows
  /\ status = "failed" => queue[id].retry_count < MaxRetry
  /\ queue' = [queue EXCEPT ![id] = update_video_queue_status(queue[id], status, error)]
  /\ UNCHANGED <<store, clock, claimPc, claimRows, notDb>>

\* ------------------------------------------------------------------
\* upsert_video_store
\* ------------------------------------------------------------------
NewStoreRow(k, hfUrl) ==
  [mal_id |-> k.mal_id, episode |-> k.episode, provider |-> k.provider,
   resolution |-> k.resolution, hf_direct_url |-> hfUrl, created_at |-> clock]

upsert_video_store(k, hfUrl) ==
  LET c == UniqueConflicts(store, k) IN
  IF c = {}
  THEN Append(store, NewStoreRow(k, hfUrl))
  ELSE [i \in DOMAIN store |->
          IF i \in c
          THEN [store[i] EXCEPT !.hf_direct_url = hfUrl, !.created_at = clock]
          ELSE store[i]]

MarkQueueReady(k) ==
  [i \in DOMAIN queue |->
     IF i \in RowsOfKey(queue, k)
     THEN [queue[i] EXCEPT !.status = "ready", !.updated_at = clock]
     ELSE queue[i]]

UpsertStore(k, hfUrl) ==
  /\ RowsOfKey(queue, k) \cap LockedRows = {}
  /\ UniqueConflicts(store, k) = {} => Len(store) < MaxStoreRows
  /\ store' = upsert_video_store(k, hfUrl)
  /\ queue' = MarkQueueReady(k)
  /\ UNCHANGED <<clock, claimPc, claimRows, notDb>>

\* ------------------------------------------------------------------
\* NOW() advances
\* ------------------------------------------------------------------
Tick ==
  /\ clock < MaxClock
  /\ clock' = clock + 1
  /\ UNCHANGED <<queue, store, claimPc, claimRows, notDb>>

\* ------------------------------------------------------------------
\* Specification of the archival queue
\* ------------------------------------------------------------------
InitDb ==
  /\ queue = <<>>
  /\ store = <<>>
  /\ clock = 0
  /\ claimPc = [w \in Workers |-> "idle"]
  /\ claimRows = [w \in Workers |-> {}]

InitLock ==
  /\ mapping = <<>>
  /\ enrichmentLocks = [k \in LockKeys |-> 0]
  /\ jobs = <<>>
  /\ reqPc = [r \in Reqs |-> "idle"]
  /\ reqKey = [r \in Reqs |-> SlugKey]
  /\ reqHit = [r \in Reqs |-> FALSE]
  /\ reqJob = [r \in Reqs |-> 0]
  /\ reqStatus = [r \in Reqs |-> 0]
  /\ reqPeers = [r \in Reqs |-> {}]

InitStream ==
  /\ apiClock = 0
  /\ streamingCache = [idx |-> 0, expiresAt |-> 0, setAt |-> 0]
  /\ scrapes = <<>>
  /\ sPc = [q \in SReqs |-> "idle"]
  /\ sNow = [q \in SReqs |-> 0]
  /\ sScrape = [q \in SReqs |-> 0]
  /\ sTask = [q \in SReqs |-> [t \in TaskIds |-> [step |-> "none", existing |-> NULL, checked |-> FALSE]]]
  /\ sArchived = [q \in SReqs |-> {}]
  /\ rpcs = {}
  /\ webhooks = <<>>

InitJikan ==
  /\ lastRequestTime = 0 - ProcessStartMs
  /\ jPc = [c \in JCallers |-> "idle"]
  /\ jWake = [c \in JCallers |-> 0]
  /\ jikanLog = <<>>

InitFetch ==
  /\ fetchImpl = "retrying"
  /\ fetchPc = "idle"
  /\ fetchAttempts = <<>>

InitProxy ==
  /\ pxPc = "idle"
  /\ pxRequest = NoRequest
  /\ pxTarget = <<>>
  /\ pxUpstream = NoUpstream
  /\ pxResponse = NoResponse

InitDetail ==
  /\ episodeCache = [p \in Providers |-> [cached |-> FALSE, cachedAt |-> 0]]
  /\ malMetadata = FALSE
  /\ gPc = "idle"
  /\ gHit = FALSE
  /\ gOutbound = {}
  /\ gResponse = [status |-> 0, cached |-> FALSE]

InitMapping ==
  /\ lastUpsert = <<>>

InitInvalidate ==
  /\ invStatus = 0

InitIsolation ==
  /\ iPc = "idle"
  /\ iProv = [p \in Providers |-> [pc |-> "idle", options |-> {}, servers |-> <<>>,
                                   failed |-> FALSE, thrown |-> FALSE]]
  /\ iStep = [t \in Providers \X PageOptions |-> "none"]
  /\ iFail = {}
  /\ iResponse = [status |-> 0, data |-> [p \in Providers |-> <<>>]]

InitDiscovery ==
  /\ dPc = "idle"
  /\ dKind = "slug"
  /\ dLocals = NoLocals
  /\ dResponse = [status |-> 0, message |-> <<>>]

Init == InitDb /\ InitLock /\ InitStream /\ InitJikan /\ InitFetch /\ InitMapping /\ InitDiscovery /\ InitIsolation /\ InitInvalidate /\ InitProxy /\ InitDetail

Next ==
  \/ \E k \in QueueKeys, u \in VideoUrls : Enqueue(k, u)
  \/ \E n \in 1..MaxLimit : ClaimLock("w1", n)
  \/ ClaimCommit("w1")
  \/ \E id \in 1..MaxRows, s \in Statuses, e \in Errors \cup {NULL} : UpdateStatus(id, s, e)
  \/ \E k \in QueueKeys, h \in HfUrls : UpsertStore(k, h)
  \/ Tick

Spec == Init /\ [][Next]_vars

\* ------------------------------------------------------------------
\* Specification of concurrent claims: several workers claim while the API
\* enqueues and the workers report failures.
\* ------------------------------------------------------------------
NextClaim ==
  \/ \E k \in QueueKeys : Enqueue(k, "https://a/")
  \/ \E w \in Workers, n \in 1..MaxLimit : ClaimLock(w, n)
  \/ \E w \in Workers : ClaimCommit(w)
  \/ \E id \in 1..MaxRows : UpdateStatus(id, "failed", "err")
  \/ Tick

SpecClaim == Init /\ [][NextClaim]_vars

\* ------------------------------------------------------------------
\* Specification of the retry bookkeeping: one worker claims, reports
\* progress and failures with different errors, and commits, while the API
\* enqueues again.
\* ------------------------------------------------------------------
NextRetry ==
  \/ \E k \in TaggedKeys : Enqueue(k, "https://a/")
  \/ ClaimLock("w1", 1)
  \/ ClaimCommit("w1")
  \/ \E id \in 1..MaxRows, s \in {"uploading", "failed"}, e \in {"err", "timeout", NULL} :
       UpdateStatus(id, s, e)
  \/ \E k \in TaggedKeys, h \in HfUrls : UpsertStore(k, h)

SpecRetry == Init /\ [][NextRetry]_vars

\* ------------------------------------------------------------------
\* Mapping resolver: request lock around the discovery
\* ------------------------------------------------------------------
\* findMappingBySlug / findMappingByMalId on the single anime of the model.
FindMapping(key) ==
  IF key = MalKey
  THEN \E i \in DOMAIN mapping : mapping[i].mal_id = 55825
  ELSE \E i \in DOMAIN mapping : mapping[i].slug_animasu = "jigokuraku-s2"

Settled(j) == jobs[j].state \in {"resolved", "rejected"}

\* The controller issues the store lookup; the store answers with what it
\* holds at that moment and the request resumes later with that answer.
ReqLookup(r, key) ==
  /\ reqPc[r] = "idle"
  /\ reqPc' = [reqPc EXCEPT ![r] = "lookup"]
  /\ reqKey' = [reqKey EXCEPT ![r] = key]
  /\ reqHit' = [reqHit EXCEPT ![r] = FindMapping(key)]
  /\ reqPeers' = [reqPeers EXCEPT ![r] = {q \in Reqs : reqPc[q] \in {"lookup", "await"}}]
  /\ UNCHANGED <<mapping, enrichmentLocks, jobs, reqJob, reqStatus, notLockMap>>

\* Mapping cache hit: the controller answers 200 with cached = true.
ReqCached(r) ==
  /\ reqPc[r] = "lookup"
  /\ reqHit[r]
  /\ reqPc' = [reqPc EXCEPT ![r] = "done"]
  /\ reqStatus' = [reqStatus EXCEPT ![r] = 200]
  /\ UNCHANGED <<mapping, enrichmentLocks, jobs, reqKey, reqHit, reqJob, reqPeers, notLockMap>>

\* The promise created by runDiscovery / runDiscoveryByMalId.
NewJob(key) == [key |-> key, state |-> "running", result |-> NULL]

\* resolveMapping / resolveMappingByMalId up to its await: reuse the promise
\* in the lock table, or start the discovery and register its promise.
ReqResolve(r) ==
  /\ reqPc[r] = "lookup"
  /\ ~reqHit[r]
  /\ IF enrichmentLocks[reqKey[r]] # 0
     THEN /\ reqJob' = [reqJob EXCEPT ![r] = enrichmentLocks[reqKey[r]]]
          /\ UNCHANGED <<jobs, enrichmentLocks>>
     ELSE /\ jobs' = Append(jobs, NewJob(reqKey[r]))
          /\ enrichmentLocks' = [enrichmentLocks EXCEPT ![reqKey[r]] = Len(jobs) + 1]
          /\ reqJob' = [reqJob EXCEPT ![r] = Len(jobs) + 1]
  /\ reqPc' = [reqPc EXCEPT ![r] = "await"]
  /\ UNCHANGED <<mapping, reqKey, reqHit, reqStatus, reqPeers, notLockMap>>

\* upsert_anime_mapping without the COALESCE: every supplied value, null
\* included, replaces the stored one.
upsert_anime_mapping_overwrite(p) ==
  IF \E i \in DOMAIN mapping : mapping[i].mal_id = p.mal_id
  THEN [i \in DOMAIN mapping |->
          IF mapping[i].mal_id = p.mal_id
          THEN [mal_id |-> p.mal_id,
                title_main |-> p.title_main,
                slug_samehadaku |-> p.slug_samehadaku,
                slug_animasu |-> p.slug_animasu,
                phash_v1 |-> p.phash_v1,
                release_year |-> p.release_year,
                total_episodes |-> p.total_episodes,
                last_sync |-> clock]
          ELSE mapping[i]]
  ELSE Append(mapping, [mal_id |-> p.mal_id,
                        title_main |-> p.title_main,
                        slug_samehadaku |-> p.slug_samehadaku,
                        slug_animasu |-> p.slug_animasu,
                        phash_v1 |-> p.phash_v1,
                        release_year |-> p.release_year,
                        total_episodes |-> p.total_episodes,
                        last_sync |-> clock])

\* COALESCE(EXCLUDED.x, anime_mappings.x)
Coalesce(new, old) == IF new # NULL THEN new ELSE old

\* The table after upsert_anime_mapping(p): INSERT ... ON CONFLICT (mal_id)
\* DO UPDATE, every field but last_sync through COALESCE.  One statement,
\* so the row is read and written under its row lock.
upsert_anime_mapping(p) ==
  IF \E i \in DOMAIN mapping : mapping[i].mal_id = p.mal_id
  THEN [i \in DOMAIN mapping |->
          IF mapping[i].mal_id = p.mal_id
          THEN [mal_id |-> mapping[i].mal_id,
                title_main |-> Coalesce(p.title_main, mapping[i].title_main),
                slug_samehadaku |-> Coalesce(p.slug_samehadaku, mapping[i].slug_samehadaku),
                slug_animasu |-> Coalesce(p.slug_animasu, mapping[i].slug_animasu),
                phash_v1 |-> Coalesce(p.phash_v1, mapping[i].phash_v1),
                release_year |-> Coalesce(p.release_year, mapping[i].release_year),
                total_episodes |-> Coalesce(p.total_episodes, mapping[i].total_episodes),
                last_sync |-> clock]
          ELSE mapping[i]]
  ELSE Append(mapping, [mal_id |-> p.mal_id,
                        title_main |-> p.title_main,
                        slug_samehadaku |-> p.slug_samehadaku,
                        slug_animasu |-> p.slug_animasu,
                        phash_v1 |-> p.phash_v1,
                        release_year |-> p.release_year,
                        total_episodes |-> p.total_episodes,
                        last_sync |-> clock])

\* The parameters upsertMapping sends for a payload (the fields the SQL
\* function declares).
UpsertParams(payload) ==
  [mal_id |-> payload.malId,
   title_main |-> payload.titleMain,
   slug_samehadaku |-> payload.slugSamehadaku,
   slug_animasu |-> payload.slugAnimasu,
   phash_v1 |-> payload.phashV1,
   release_year |-> payload.releaseYear,
   total_episodes |-> payload.totalEpisodes]

\* upsertMapping: the table after the rpc call.
upsertMapping(payload) == upsert_anime_mapping(UpsertParams(payload))

\* The payload the discoveries of the request-lock model build: the MAL
\* entry and the animasu slug found, or none.
DiscoveryPayload(slug) ==
  [malId |-> 55825, titleMain |-> MalTitle,
   slugSamehadaku |-> NULL, slugAnimasu |-> slug, phashV1 |-> NULL,
   releaseYear |-> NULL, totalEpisodes |-> NULL]

\* runDiscoveryByMalId, step 1: the mapping is already stored, return it.
JobCacheHit(j) ==
  /\ j \in DOMAIN jobs
  /\ jobs[j].state = "running"
  /\ jobs[j].key = MalKey
  /\ FindMapping(MalKey)
  /\ jobs' = [jobs EXCEPT ![j] = [@ EXCEPT !.state = "saved", !.result = "mapping"]]
  /\ UNCHANGED <<mapping, enrichmentLocks, reqPc, reqKey, reqHit, reqJob, reqStatus, reqPeers, notLockMap>>

\* The discovery found the anime and upserts the mapping (last step before
\* it returns).  A discovery by slug stores its own slug; a discovery by
\* MAL id stores the slug it found, or none.
JobUpsert(j, slug) ==
  /\ j \in DOMAIN jobs
  /\ jobs[j].state = "running"
  /\ jobs[j].key = SlugKey => slug # NULL
  /\ mapping' = upsertMapping(DiscoveryPayload(slug))
  /\ lastUpsert' = <<UpsertParams(DiscoveryPayload(slug))>>
  /\ jobs' = [jobs EXCEPT ![j] = [@ EXCEPT !.state = "saved", !.result = "mapping"]]
  /\ UNCHANGED <<enrichmentLocks, reqPc, reqKey, reqHit, reqJob, reqStatus, reqPeers, notLock>>

\* The lock table after the promise of a discovery for key has settled with
\* the given outcome: .finally() deletes the entry whatever the outcome.
LocksAfterSettleOnSuccess(key, outcome) ==
  IF outcome = "throw" THEN enrichmentLocks ELSE [enrichmentLocks EXCEPT ![key] = 0]

LocksAfterSettle(key, outcome) ==
  [enrichmentLocks EXCEPT ![key] = 0]

\* The discovery's promise settles: it returns the saved mapping, returns
\* null (no detail page, no MAL match) or throws (a store call failed).
JobSettle(j, outcome) ==
  /\ j \in DOMAIN jobs
  /\ \/ jobs[j].state = "saved" /\ outcome = "mapping"
     \/ jobs[j].state = "running" /\ outcome \in {"none", "throw"}
  /\ jobs' = [jobs EXCEPT ![j] = [@ EXCEPT
                 !.state = IF outcome = "throw" THEN "rejected" ELSE "resolved",
                 !.result = IF outcome = "mapping" THEN "mapping" ELSE NULL]]
  /\ enrichmentLocks' = LocksAfterSettle(jobs[j].key, outcome)
  /\ UNCHANGED <<mapping, reqPc, reqKey, reqHit, reqJob, reqStatus, reqPeers, notLockMap>>

\* The awaited promise has settled: 200 with the mapping, 404 on null,
\* 500 when it rejected.
ReqRespond(r) ==
  /\ reqPc[r] = "await"
  /\ Settled(reqJob[r])
  /\ reqPc' = [reqPc EXCEPT ![r] = "done"]
  /\ reqStatus' = [reqStatus EXCEPT ![r] =
                     IF jobs[reqJob[r]].state = "rejected" THEN 500
                     ELSE IF jobs[reqJob[r]].result = NULL THEN 404 ELSE 200]
  /\ UNCHANGED <<mapping, enrichmentLocks, jobs, reqKey, reqHit, reqJob, reqPeers, notLockMap>>

NextLock ==
  \/ \E r \in Reqs, key \in LockKeys : ReqLookup(r, key)
  \/ \E r \in Reqs : ReqCached(r)
  \/ \E r \in Reqs : ReqResolve(r)
  \/ \E j \in 1..MaxReqs : JobCacheHit(j)
  \/ \E j \in 1..MaxReqs, slug \in {NULL, "jigokuraku-s2"} : JobUpsert(j, slug)
  \/ \E j \in 1..MaxReqs, o \in Outcomes : JobSettle(j, o)
  \/ \E r \in Reqs : ReqRespond(r)

SpecLock == Init /\ [][NextLock]_vars

\* ------------------------------------------------------------------
\* Streaming enrichment: getStreamingLinks and enrichWithStreamUrls
\* ------------------------------------------------------------------
\* encodeURIComponent on the URLs of the model.
encodeURIComponent(u) ==
  CASE u = "https://cdn/v.mp4" -> "https%3A%2F%2Fcdn%2Fv.mp4"
    [] u = "https://hf/1" -> "https%3A%2F%2Fhf%2F1"
    [] u = "https://mega.nz/embed/x" -> "https%3A%2F%2Fmega.nz%2Fembed%2Fx"
    [] u = "https://filedon.co/embed/y" -> "https%3A%2F%2Ffiledon.co%2Fembed%2Fy"

buildStreamUrl(resolvedUrl) ==
  IF CF_WORKERS_BASE_URL = ""
  THEN NULL
  ELSE CF_WORKERS_BASE_URL \o "/proxy?url=" \o encodeURIComponent(resolvedUrl)

\* Hosts whose embed URL, not the resolved URL, is enqueued for download.
needsEmbedUrl(u) == u \in {"https://mega.nz/embed/x"}

\* findVideoStore: the row of the key, null when there is none or when the
\* query fails (maybeSingle fails on more than one row).
findVideoStore(k) ==
  IF Cardinality(RowsOfKey(store, k)) = 1
  THEN store[CHOOSE i \in RowsOfKey(store, k) : TRUE].hf_direct_url
  ELSE NULL

\* findVideoQueueEntry: the status of the row of the key, null when there is
\* none or when the query fails.
findVideoQueueEntry(k) ==
  IF Cardinality(RowsOfKey(queue, k)) = 1
  THEN queue[CHOOSE i \in RowsOfKey(queue, k) : TRUE].status
  ELSE NULL

\* The servers a provider scrape can build: embed URL, resolved URL (null
\* when the resolver failed), resolution tag, stream not yet set.  The
\* episode page of the model lists a 720p mirror on the first embed host and
\* an untagged mirror on the second.
Servers ==
  {s \in [url : EmbedUrls, url_resolved : CdnUrls \cup {NULL},
          resolution : Resolutions, stream : {NULL}] :
     needsEmbedUrl(s.url) <=> s.resolution = "720p"}

\* A provider scrape returns null (the empty list here) or a non-empty list.
ScrapeOutcomes ==
  {<<>>} \cup UNION {[1..n -> Servers] : n \in 1..MaxServers}

ScrapeResults ==
  {r \in [Providers -> ScrapeOutcomes] :
     \A p \in Providers : StreamSlugs[p] = NULL => r[p] = <<>>}

ServerKey(p, server) ==
  [mal_id |-> 55825, episode |-> 1, provider |-> p, resolution |-> server.resolution]

StoredKeys == {KeyOf(store[i]) : i \in DOMAIN store}

\* The synchronous start of every enrichment callback: a server without a
\* resolved URL gets stream = null and is done, the others issue the store
\* lookup.
StartTasks(res) ==
  [t \in TaskIds |->
     IF t[2] > Len(res[t[1]]) THEN [step |-> "none", existing |-> NULL, checked |-> FALSE]
     ELSE IF res[t[1]][t[2]].url_resolved = NULL THEN [step |-> "done", existing |-> NULL, checked |-> FALSE]
     ELSE [step |-> "store", existing |-> NULL, checked |-> FALSE]]

NullStreams(res) ==
  [p \in Providers |->
     [i \in DOMAIN res[p] |->
        IF res[p][i].url_resolved = NULL
        THEN [res[p][i] EXCEPT !.stream = NULL]
        ELSE res[p][i]]]

CacheHit == streamingCache.idx # 0 /\ streamingCache.expiresAt > apiClock

\* getStreamingLinks up to its first await: on a cache hit the enrichment of
\* the cached lists starts, otherwise the stale entry is deleted and the
\* scrapes are awaited.
SReqStart(q) ==
  /\ sPc[q] = "idle"
  /\ sNow' = [sNow EXCEPT ![q] = apiClock]
  /\ sArchived' = [sArchived EXCEPT ![q] = StoredKeys]
  /\ IF CacheHit
     THEN /\ sPc' = [sPc EXCEPT ![q] = "enrich"]
          /\ sScrape' = [sScrape EXCEPT ![q] = streamingCache.idx]
          /\ scrapes' = [scrapes EXCEPT ![streamingCache.idx] = NullStreams(@)]
          /\ sTask' = [sTask EXCEPT ![q] = StartTasks(scrapes[streamingCache.idx])]
          /\ UNCHANGED streamingCache
     ELSE /\ sPc' = [sPc EXCEPT ![q] = "scrape"]
          /\ streamingCache' = [idx |-> 0, expiresAt |-> 0, setAt |-> 0]
          /\ UNCHANGED <<sScrape, scrapes, sTask>>
  /\ UNCHANGED <<apiClock, rpcs, webhooks, notStr>>

\* The scrapes have returned: the result is cached with the expiry computed
\* from the now read on entry, and its enrichment starts.
SReqScraped(q, res) ==
  /\ sPc[q] = "scrape"
  /\ scrapes' = Append(scrapes, NullStreams(res))
  /\ streamingCache' = [idx |-> Len(scrapes) + 1,
                        expiresAt |-> sNow[q] + EPISODE_CACHE_TTL_MS,
                        setAt |-> apiClock]
  /\ sScrape' = [sScrape EXCEPT ![q] = Len(scrapes) + 1]
  /\ sTask' = [sTask EXCEPT ![q] = StartTasks(res)]
  /\ sPc' = [sPc EXCEPT ![q] = "enrich"]
  /\ UNCHANGED <<apiClock, sNow, sArchived, rpcs, webhooks, notStr>>

\* Step 1 and 2 of the callback: the store lookup has answered.  On a hit
\* the server gets the durable URL; on a miss the stream wraps the resolved
\* URL and the queue lookup is issued.
TaskStore(q, p, i) ==
  LET server == scrapes[sScrape[q]][p][i]
      stored == findVideoStore(ServerKey(p, server))
  IN
  /\ sPc[q] = "enrich"
  /\ sTask[q][<<p, i>>].step = "store"
  /\ IF stored # NULL
     THEN /\ scrapes' = [scrapes EXCEPT ![sScrape[q]][p][i] =
                           [@ EXCEPT !.url_resolved = stored,
                                     !.stream = buildStreamUrl(stored)]]
          /\ sTask' = [sTask EXCEPT ![q][<<p, i>>] = [@ EXCEPT !.step = "done", !.checked = TRUE]]
     ELSE /\ scrapes' = [scrapes EXCEPT ![sScrape[q]][p][i] =
                           [@ EXCEPT !.stream = buildStreamUrl(server.url_resolved)]]
          /\ sTask' = [sTask EXCEPT ![q][<<p, i>>] = [@ EXCEPT !.step = "queue", !.checked = TRUE]]
  /\ UNCHANGED <<apiClock, streamingCache, sPc, sNow, sScrape, sArchived, rpcs, webhooks>>
  /\ UNCHANGED notStr

\* Step 3, the read: the queue answers with the entry it holds at that moment.
TaskQueueRead(q, p, i) ==
  LET server == scrapes[sScrape[q]][p][i] IN
  /\ sPc[q] = "enrich"
  /\ sTask[q][<<p, i>>].step = "queue"
  /\ sTask' = [sTask EXCEPT ![q][<<p, i>>] =
                 [@ EXCEPT !.step = "found",
                           !.existing = findVideoQueueEntry(ServerKey(p, server))]]
  /\ UNCHANGED <<apiClock, streamingCache, scrapes, sPc, sNow, sScrape, sArchived, rpcs, webhooks>>
  /\ UNCHANGED notStr

\* The callback never reaches the enqueue.
SkipEnqueueAlways(existing) == TRUE

\* Whether the callback skips the enqueue, given what the queue lookup read.
SkipEnqueue(existing) == existing # NULL

\* Step 3 to 5, the continuation: return when an entry was read, otherwise
\* send enqueue_video (not awaited) and the webhook with the download URL.
TaskQueueAct(q, p, i) ==
  LET server == scrapes[sScrape[q]][p][i]
      downloadUrl == IF needsEmbedUrl(server.url) THEN server.url ELSE server.url_resolved
      payload == [key |-> ServerKey(p, server), video_url |-> downloadUrl]
  IN
  /\ sPc[q] = "enrich"
  /\ sTask[q][<<p, i>>].step = "found"
  /\ IF SkipEnqueue(sTask[q][<<p, i>>].existing)
     THEN UNCHANGED <<rpcs, webhooks>>
     ELSE /\ rpcs' = rpcs \cup {[task |-> <<q, p, i>>, key |-> payload.key,
                                 video_url |-> payload.video_url]}
          /\ webhooks' = Append(webhooks, payload)
  /\ sTask' = [sTask EXCEPT ![q][<<p, i>>].step = "done"]
  /\ UNCHANGED <<apiClock, streamingCache, scrapes, sPc, sNow, sScrape, sArchived>>
  /\ UNCHANGED notStr

\* enqueueVideo got an error from the store: it logs and returns null.
RpcFail(rpc) ==
  /\ rpc \in rpcs
  /\ rpcs' = rpcs \ {rpc}
  /\ UNCHANGED <<apiClock, streamingCache, scrapes, sPc, sNow, sScrape, sTask, sArchived, webhooks>>
  /\ UNCHANGED notStr

\* Every callback has settled: the lists are returned.
SReqRespond(q) ==
  /\ sPc[q] = "enrich"
  /\ \A t \in TaskIds : sTask[q][t].step \in {"none", "done"}
  /\ sPc' = [sPc EXCEPT ![q] = "done"]
  /\ UNCHANGED <<apiClock, streamingCache, scrapes, sNow, sScrape, sTask, sArchived, rpcs, webhooks>>
  /\ UNCHANGED notStr

ApiTick ==
  /\ apiClock < MaxApiTicks * TickMs
  /\ apiClock' = apiClock + TickMs
  /\ UNCHANGED <<streamingCache, scrapes, sPc, sNow, sScrape, sTask, sArchived, rpcs, webhooks>>
  /\ UNCHANGED notStr

\* Streaming requests against the queue and the store, with the archival
\* worker claiming, failing and committing entries.
NextStream ==
  \/ \E q \in SReqs : SReqStart(q)
  \/ \E q \in SReqs, res \in ScrapeResults : SReqScraped(q, res)
  \/ \E q \in SReqs, t \in TaskIds : TaskStore(q, t[1], t[2])
  \/ \E q \in SReqs, t \in TaskIds : TaskQueueRead(q, t[1], t[2])
  \/ \E q \in SReqs, t \in TaskIds : TaskQueueAct(q, t[1], t[2])
  \/ \E rpc \in rpcs : RpcEnqueue(rpc)
  \/ \E rpc \in rpcs : RpcFail(rpc)
  \/ \E q \in SReqs : SReqRespond(q)
  \/ ApiTick
  \/ ClaimLock("w1", 1)
  \/ ClaimCommit("w1")
  \/ \E id \in 1..MaxRows : UpdateStatus(id, "failed", "err")
  \/ \E k \in QueueKeys, h \in HfUrls : UpsertStore(k, h)

SpecStream == Init /\ [][NextStream]_vars

\* The first request for an episode, on an empty queue and store, with the
\* archival worker claiming and failing the entries it enqueues.
NextCold ==
  \/ SReqStart(1)
  \/ \E res \in ScrapeResults : SReqScraped(1, res)
  \/ \E t \in TaskIds : TaskStore(1, t[1], t[2])
  \/ \E t \in TaskIds : TaskQueueRead(1, t[1], t[2])
  \/ \E t \in TaskIds : TaskQueueAct(1, t[1], t[2])
  \/ \E rpc \in rpcs : RpcEnqueue(rpc)
  \/ \E rpc \in rpcs : RpcFail(rpc)
  \/ SReqRespond(1)
  \/ ClaimLock("w1", 1)
  \/ ClaimCommit("w1")
  \/ \E id \in 1..MaxRows : UpdateStatus(id, "failed", "err")
  \/ ApiTick
  \/ Tick

SpecCold == Init /\ [][NextCold]_vars

\* ------------------------------------------------------------------
\* MAL client: jikanThrottle
\* ------------------------------------------------------------------
JCallsStarted == Len(jikanLog) + Cardinality({c \in JCallers : jPc[c] = "sleep"})

\* A caller enters jikanThrottle: it reads the clock and lastRequestTime and
\* either goes on at once (it records the time and its request starts) or
\* sets a timer for the rest of the gap.
JikanCall(c) ==
  LET elapsed == apiClock - lastRequestTime IN
  /\ jPc[c] = "idle"
  /\ JCallsStarted < MaxCalls
  /\ IF elapsed < JIKAN_RATE_LIMIT_MS
     THEN /\ jPc' = [jPc EXCEPT ![c] = "sleep"]
          /\ jWake' = [jWake EXCEPT ![c] = apiClock + (JIKAN_RATE_LIMIT_MS - elapsed)]
          /\ UNCHANGED <<lastRequestTime, jikanLog>>
     ELSE /\ lastRequestTime' = apiClock
          /\ jikanLog' = Append(jikanLog, apiClock)
          /\ UNCHANGED <<jPc, jWake>>
  /\ UNCHANGED <<strVars, dbVars, lockVars, fetVars, mapVars, disVars, isoVars, invVars, prxVars, detVars>>

\* The timer of a waiting caller fires: it records the time and its request
\* starts.
JikanWake(c) ==
  /\ jPc[c] = "sleep"
  /\ apiClock >= jWake[c]
  /\ lastRequestTime' = apiClock
  /\ jikanLog' = Append(jikanLog, apiClock)
  /\ jPc' = [jPc EXCEPT ![c] = "idle"]
  /\ UNCHANGED <<jWake, strVars, dbVars, lockVars, fetVars, mapVars, disVars, isoVars, invVars, prxVars, detVars>>

ThrottleTick ==
  /\ apiClock < MaxThrottleTicks * ThrottleTickMs
  /\ apiClock' = apiClock + ThrottleTickMs
  /\ UNCHANGED <<streamingCache, scrapes, sPc, sNow, sScrape, sTask, sArchived, rpcs, webhooks>>
  /\ UNCHANGED <<dbVars, lockVars, jikVars, fetVars, mapVars, disVars, isoVars, invVars, prxVars, detVars>>

NextThrottle ==
  \/ \E c \in JCallers : JikanCall(c)
  \/ \E c \in JCallers : JikanWake(c)
  \/ ThrottleTick

SpecThrottle == Init /\ [][NextThrottle]_vars

\* C15: any two outbound MAL requests start at least 400 ms apart.
ThrottleGap ==
  \A i, j \in DOMAIN jikanLog :
    i < j => jikanLog[j] - jikanLog[i] >= JIKAN_RATE_LIMIT_MS

\* ------------------------------------------------------------------
\* fetchHTML
\* ------------------------------------------------------------------
\* The catch block of the retrying fetchHTML: whether the error makes the
\* loop continue.
Retryable(o) == o.code \in RETRYABLE_CODES \/ o.status >= 500

FetchStart(impl) ==
  /\ fetchPc \in {"idle", "returned", "thrown"}
  /\ fetchImpl' = impl
  /\ fetchPc' = "running"
  /\ fetchAttempts' = <<>>
  /\ UNCHANGED notFet

\* One pass of the loop (the whole body of the plain fetchHTML): the wait
\* before the attempt, axios.get, and what the catch block does.
FetchAttempt(o) ==
  LET attempt == Len(fetchAttempts)
      wait == IF fetchImpl = "retrying" /\ attempt > 0 THEN 500 * attempt ELSE 0
  IN
  /\ fetchPc = "running"
  /\ fetchAttempts' = Append(fetchAttempts, [wait |-> wait, outcome |-> o])
  /\ fetchPc' =
       IF o.ok THEN "returned"
       ELSE IF fetchImpl = "retrying" /\ Retryable(o) /\ attempt + 1 < MAX_RETRIES
            THEN "running"
            ELSE "thrown"
  /\ UNCHANGED <<fetchImpl, notFet>>

NextFetch ==
  \/ \E impl \in FetchImpls : FetchStart(impl)
  \/ \E o \in FetchOutcomes : FetchAttempt(o)

SpecFetch == Init /\ [][NextFetch]_vars

\* A timeout, a connection reset or a 5xx answer.
Transient(o) ==
  ~o.ok /\ (o.code \in {"ECONNABORTED", "ETIMEDOUT", "ECONNRESET"} \/ o.status >= 500)

\* C16: a fetch goes on after a transient error until its third attempt,
\* waits 0, 500 and 1000 ms before its attempts, and stops at once on a 4xx
\* answer.
FetchRetriesTransient ==
  /\ \A a \in DOMAIN fetchAttempts : fetchAttempts[a].wait = 500 * (a - 1)
  /\ Len(fetchAttempts) <= MAX_RETRIES
  /\ (fetchPc = "thrown" /\ Transient(fetchAttempts[Len(fetchAttempts)].outcome))
       => Len(fetchAttempts) = MAX_RETRIES
  /\ \A a \in DOMAIN fetchAttempts :
       fetchAttempts[a].outcome.status \in 400..499
         => (a = Len(fetchAttempts) /\ fetchPc = "thrown")

\* ------------------------------------------------------------------
\* Mapping store: concurrent upserts of one anime
\* ------------------------------------------------------------------
\* The parameter sets the discoveries send: each knows some of the slugs,
\* the pHash and the year, and sends null for the rest.
MapParams ==
  [mal_id : MalIds,
   title_main : {MalTitle},
   slug_samehadaku : {"jigokuraku-season-2", NULL},
   slug_animasu : {"jigokuraku-s2", "jigokuraku-2", NULL},
   phash_v1 : {"phash-a", "phash-b", NULL},
   release_year : {"2026", NULL},
   total_episodes : {NULL}]

\* One upsert_anime_mapping call executes.  Calls of concurrent discoveries
\* execute one after the other in the database, in any order.
MappingUpsert(p) ==
  /\ mapping' = upsert_anime_mapping(p)
  /\ lastUpsert' = <<p>>
  /\ UNCHANGED <<enrichmentLocks, jobs, reqPc, reqKey, reqHit, reqJob, reqStatus, reqPeers, notLock>>

NextMapping ==
  \/ \E p \in MapParams : MappingUpsert(p)
  \/ Tick

SpecMapping == Init /\ [][NextMapping]_vars

\* The nullable identity fields of a mapping.
IdentityFields == {"slug_samehadaku", "slug_animasu", "phash_v1"}

\* C17: a provider slug or pHash stored as non-null is never replaced by
\* null, whatever the order of the upserts for the mal_id: no row goes away,
\* a stored non-null field stays non-null, and an upsert that supplies null
\* for the field leaves the stored value in place.
StoredFieldsSurvive ==
  [][\A i \in DOMAIN mapping, f \in IdentityFields :
       mapping[i][f] # NULL =>
         /\ i \in DOMAIN mapping'
         /\ mapping'[i].mal_id = mapping[i].mal_id
         /\ mapping'[i][f] # NULL
         /\ \A p \in MapParams :
              (MappingUpsert(p) /\ p[f] = NULL) => mapping'[i][f] = mapping[i][f]]_vars

\* A later write that knew the samehadaku slug only has left the stored
\* animasu slug and pHash in place.
StoredFieldsSurviveWitness ==
  /\ lastUpsert # <<>>
  /\ lastUpsert[1].slug_animasu = NULL
  /\ lastUpsert[1].phash_v1 = NULL
  /\ lastUpsert[1].slug_samehadaku # NULL
  /\ \E i \in DOMAIN mapping :
       /\ mapping[i].slug_animasu = "jigokuraku-s2"
       /\ mapping[i].phash_v1 = "phash-a"
       /\ mapping[i].slug_samehadaku = lastUpsert[1].slug_samehadaku
       /\ mapping[i].last_sync = MaxClock

\* ------------------------------------------------------------------
\* Discovery pipeline behind one detail request
\* ------------------------------------------------------------------
\* One detail request at a time runs the controller and, on a store miss,
\* the discovery (it always takes the request lock, no peer being in
\* flight).  Other processes write the mapping table meanwhile.
lockRest == <<enrichmentLocks, jobs, reqPc, reqKey, reqHit, reqJob, reqStatus, reqPeers>>
notDis == <<dbVars, lockRest, strVars, jikVars, fetVars, isoVars, invVars, prxVars, detVars>>

PHASH_HAMMING_THRESHOLD == 5

\* Bit distance of two 64-character hashes; the two covers of the model
\* differ in many bits.
hammingDistance(hash1, hash2) == IF hash1 = hash2 THEN 0 ELSE 128

\* Rows find_mapping_by_phash selects: the stored hash is within the
\* threshold (one anime in the model, so at most one row).
find_mapping_by_phash(p_hash, p_threshold) ==
  SelectSeq(mapping, LAMBDA r : /\ r.phash_v1 # NULL
                                /\ hammingDistance(r.phash_v1, p_hash) < p_threshold)

\* What the rpc call can answer: the rows selected, the rows of a stale
\* plan (any row with a hash), or an error with its message.
RpcNotFound == "Could not find the function public.find_mapping_by_phash(p_hash, p_threshold) in the schema cache"
RpcTimeout == "canceling statement due to statement timeout"
PHashRpcAnswers(p_hash) ==
  {[error |-> NULL, data |-> find_mapping_by_phash(p_hash, PHASH_HAMMING_THRESHOLD)],
   [error |-> NULL, data |-> SelectSeq(mapping, LAMBDA r : r.phash_v1 # NULL)],
   [error |-> RpcNotFound, data |-> <<>>],
   [error |-> RpcTimeout, data |-> <<>>]}

\* error.message.includes('Could not find the function')
IncludesCouldNotFind(message) == message = RpcNotFound

\* findMappingByPHash with every rpc error thrown, the missing function
\* included.
findMappingByPHashStrict(answer, candidateHash, threshold) ==
  IF answer.error # NULL
  THEN [thrown |-> <<"Supabase pHash lookup failed: ", answer.error>>, value |-> <<>>]
  ELSE IF answer.data = <<>>
       THEN [thrown |-> <<>>, value |-> <<>>]
       ELSE IF /\ answer.data[1].phash_v1 # NULL
               /\ hammingDistance(candidateHash, answer.data[1].phash_v1) >= threshold
            THEN [thrown |-> <<>>, value |-> <<>>]
            ELSE [thrown |-> <<>>, value |-> <<answer.data[1]>>]

\* findMappingByPHash on the rpc's answer: the exception thrown (none: <<>>)
\* and the value returned (null: <<>>).
findMappingByPHash(answer, candidateHash, threshold) ==
  IF answer.error # NULL
  THEN IF IncludesCouldNotFind(answer.error)
       THEN [thrown |-> <<>>, value |-> <<>>]
       ELSE [thrown |-> <<"Supabase pHash lookup failed: ", answer.error>>, value |-> <<>>]
  ELSE IF answer.data = <<>>
       THEN [thrown |-> <<>>, value |-> <<>>]
       ELSE IF /\ answer.data[1].phash_v1 # NULL
               /\ hammingDistance(candidateHash, answer.data[1].phash_v1) >= threshold
            THEN [thrown |-> <<>>, value |-> <<>>]
            ELSE [thrown |-> <<>>, value |-> <<answer.data[1]>>]

\* The key of the request as the controller's messages write it.
DKeyText == IF dKind = "mal" THEN "mal_id=55825" ELSE "animasu/jigokuraku-s2"

\* getAnime / getAnimeByMalId, step 1: the store lookup; a hit skips the
\* discovery.
DStart(kind) ==
  /\ dPc \in {"idle", "done"}
  /\ dKind' = kind
  /\ dLocals' = NoLocals
  /\ dResponse' = [status |-> 0, message |-> <<>>]
  /\ dPc' = IF FindMapping(IF kind = "mal" THEN MalKey ELSE SlugKey)
            THEN "respond_cached"
            ELSE IF kind = "mal" THEN "mal_step1" ELSE "step1"
  /\ UNCHANGED <<mapping, lastUpsert, notDis>>

\* runDiscovery step 1: the detail page of the source provider; null ends
\* the discovery with null.
DDetail(ok) ==
  /\ dPc = "step1"
  /\ dPc' = IF ok THEN "step2" ELSE "settled"
  /\ UNCHANGED <<dKind, dLocals, dResponse, mapping, lastUpsert, notDis>>

\* Step 2: generatePHash of the cover, a hash or null.
DGenPHash(h) ==
  /\ dPc = "step2"
  /\ dLocals' = [dLocals EXCEPT !.pHash = h]
  /\ dPc' = IF h # NULL THEN "step3" ELSE "step4"
  /\ UNCHANGED <<dKind, dResponse, mapping, lastUpsert, notDis>>

\* Step 3: the visual match.  A thrown lookup rejects the discovery; a row
\* found is the match, with the MAL entry getAnimeById returns (or null).
DVisual(answer, jikanFound) ==
  /\ dPc = "step3"
  /\ LET r == findMappingByPHash(answer, dLocals.pHash, PHASH_HAMMING_THRESHOLD)
         lookup == IF answer.error # NULL
                   THEN (IF IncludesCouldNotFind(answer.error) THEN "unavailable" ELSE "error")
                   ELSE "answered"
     IN IF r.thrown # <<>>
        THEN /\ dLocals' = [dLocals EXCEPT !.lookup = lookup, !.result = "thrown", !.thrown = r.thrown]
             /\ dPc' = "settled"
        ELSE IF r.value # <<>>
             THEN /\ dLocals' = [dLocals EXCEPT !.lookup = lookup, !.existing = "row",
                                                !.method = "phash", !.jikanAnime = jikanFound]
                  /\ dPc' = "step5"
             ELSE /\ jikanFound = FALSE
                  /\ dLocals' = [dLocals EXCEPT !.lookup = lookup]
                  /\ dPc' = "step4"
  /\ UNCHANGED <<dKind, dResponse, mapping, lastUpsert, notDis>>

\* Step 4: no visual match, searchByTitle and the acceptance gate: a
\* candidate accepted, a candidate rejected, or none.
DJikan(outcome) ==
  /\ dPc = "step4"
  /\ dLocals' = [dLocals EXCEPT !.searched = TRUE,
                                !.method = IF outcome = "accepted" THEN "jikan_exact" ELSE @,
                                !.jikanAnime = (outcome = "accepted")]
  /\ dPc' = "step5"
  /\ UNCHANGED <<dKind, dResponse, mapping, lastUpsert, notDis>>

\* After step 5: without a MAL id or MAL entry the discovery returns null.
DGate ==
  /\ dPc = "step5"
  /\ dPc' = IF dLocals.method = "none" \/ ~dLocals.jikanAnime THEN "settled" ELSE "step6"
  /\ UNCHANGED <<dKind, dLocals, dResponse, mapping, lastUpsert, notDis>>

\* Step 6: the source slug is known, the other provider is searched.
DCross(found) ==
  /\ dPc = "step6"
  /\ dLocals' = [dLocals EXCEPT !.slugAnimasu = "jigokuraku-s2", !.slugSamehadaku = found]
  /\ dPc' = "step7"
  /\ UNCHANGED <<dKind, dResponse, mapping, lastUpsert, notDis>>

\* runDiscoveryByMalId step 1: the store again; a row stored meanwhile is
\* returned.
DMalCached ==
  /\ dPc = "mal_step1"
  /\ IF FindMapping(MalKey)
     THEN dLocals' = [dLocals EXCEPT !.result = "mapping"] /\ dPc' = "settled"
     ELSE dLocals' = dLocals /\ dPc' = "mal_step2"
  /\ UNCHANGED <<dKind, dResponse, mapping, lastUpsert, notDis>>

\* Step 2: getAnimeFullById; null ends the discovery with null.
DMalFull(found) ==
  /\ dPc = "mal_step2"
  /\ dLocals' = [dLocals EXCEPT !.jikanAnime = found]
  /\ dPc' = IF found THEN "mal_step3" ELSE "settled"
  /\ UNCHANGED <<dKind, dResponse, mapping, lastUpsert, notDis>>

\* Step 3: each provider is searched; the pHash comes from a slug found.
\* With no slug at all the discovery only logs a warning and goes on.
DMalCross(sam, ani, h) ==
  /\ dPc = "mal_step3"
  /\ (sam = NULL /\ ani = NULL) => h = NULL
  /\ dLocals' = [dLocals EXCEPT !.slugSamehadaku = sam, !.slugAnimasu = ani, !.pHash = h]
  /\ dPc' = "step7"
  /\ UNCHANGED <<dKind, dResponse, mapping, lastUpsert, notDis>>

\* Step 7 (step 4 by MAL id): the mapping is upserted and returned.
DUpsert ==
  /\ dPc = "step7"
  /\ LET payload == [malId |-> 55825, titleMain |-> MalTitle,
                     slugSamehadaku |-> dLocals.slugSamehadaku,
                     slugAnimasu |-> dLocals.slugAnimasu,
                     phashV1 |-> dLocals.pHash,
                     releaseYear |-> "2026", totalEpisodes |-> NULL]
     IN /\ mapping' = upsertMapping(payload)
        /\ lastUpsert' = <<UpsertParams(payload)>>
  /\ dLocals' = [dLocals EXCEPT !.result = "mapping"]
  /\ dPc' = "settled"
  /\ UNCHANGED <<dKind, dResponse, notDis>>

\* The controller after the lookup or the discovery: 200 with the mapping
\* (its further steps, MAL metadata and episode lists, are not modelled),
\* 404 on null, 500 with the exception's message on a throw.
DRespond ==
  /\ dPc \in {"respond_cached", "settled"}
  /\ dResponse' =
       IF dPc = "respond_cached" \/ dLocals.result = "mapping"
       THEN [status |-> 200, message |-> <<>>]
       ELSE IF dLocals.result = "thrown"
            THEN [status |-> 500, message |-> dLocals.thrown]
            ELSE [status |-> 404,
                  message |-> <<"Could not resolve mapping for ", DKeyText,
                                IF dKind = "mal"
                                THEN ". The anime may not exist on MAL or could not be found on any provider."
                                ELSE ". The anime may not exist on this provider or MAL could not be identified.">>]
  /\ dPc' = "done"
  /\ UNCHANGED <<dKind, dLocals, mapping, lastUpsert, notDis>>

\* What another process stores for the anime meanwhile: the samehadaku
\* slug with the hash of the same cover or of another one.
OtherParams ==
  {p \in MapParams : /\ p.slug_samehadaku # NULL /\ p.slug_animasu = NULL
                     /\ p.phash_v1 # NULL /\ p.release_year = NULL}

OtherUpsert(p) ==
  /\ mapping' = upsert_anime_mapping(p)
  /\ lastUpsert' = <<p>>
  /\ UNCHANGED <<disVars, notDis>>

NextDiscovery ==
  \/ \E kind \in {"slug", "mal"} : DStart(kind)
  \/ \E ok \in BOOLEAN : DDetail(ok)
  \/ \E h \in {"phash-a", NULL} : DGenPHash(h)
  \/ \E answer \in PHashRpcAnswers(dLocals.pHash), j \in BOOLEAN : DVisual(answer, j)
  \/ \E outcome \in {"accepted", "rejected", "none"} : DJikan(outcome)
  \/ DGate
  \/ \E found \in {"jigokuraku-season-2", NULL} : DCross(found)
  \/ DMalCached
  \/ \E found \in BOOLEAN : DMalFull(found)
  \/ \E sam \in {"jigokuraku-season-2", NULL}, ani \in {"jigokuraku-s2", NULL},
        h \in {"phash-a", NULL} : DMalCross(sam, ani, h)
  \/ DUpsert
  \/ DRespond
  \/ \E p \in OtherParams : OtherUpsert(p)

SpecDiscovery == Init /\ [][NextDiscovery]_vars

ResolutionImpossible ==
  \/ /\ dKind = "slug"
     /\ dLocals.searched
     /\ dLocals.method = "none"
  \/ /\ dKind = "mal"
     /\ dLocals.jikanAnime
     /\ dLocals.result = "mapping"
     /\ dLocals.slugSamehadaku = NULL
     /\ dLocals.slugAnimasu = NULL
     /\ lastUpsert # <<>>

\* C19: a detail request for which resolution is impossible ends in 404
\* with a message that names its key.
ImpossibleIs404 ==
  (dPc = "done" /\ ResolutionImpossible) =>
    /\ dResponse.status = 404
    /\ \E i \in DOMAIN dResponse.message : dResponse.message[i] = DKeyText

\* ------------------------------------------------------------------
\* Failure isolation in one streaming request
\* ------------------------------------------------------------------
\* One request scrapes both providers (the cache holds nothing), resolves
\* every server found and enriches it; the store and queue lookups answer
\* as inputs.  A null list is the empty list.
notIso == <<dbVars, lockVars, strVars, jikVars, fetVars, mapVars, disVars, invVars, prxVars, detVars>>

\* How an episode page fetch ends: a page with options, a page without, a
\* non-2xx answer, an exception.
PageOutcomes == {"ok", "http_error", "throw"}

\* The server an option of the page yields before it is resolved.
OptionServer(i) ==
  IF i = 1
  THEN [url |-> "https://mega.nz/embed/x", url_resolved |-> NULL, resolution |-> "720p", stream |-> NULL]
  ELSE [url |-> "https://filedon.co/embed/y", url_resolved |-> NULL, resolution |-> NULL, stream |-> NULL]

\* The servers of the options that gave an embed URL, in page order.
RECURSIVE OptionServers(_, _)
OptionServers(options, from) ==
  IF \A i \in options : i < from
  THEN <<>>
  ELSE LET i == CHOOSE j \in options : j >= from /\ \A k \in options : k >= from => j <= k
       IN <<OptionServer(i)>> \o OptionServers(options, i + 1)

\* A failed page fetch escapes the scrape as an exception.
ScrapePageUncaught(outcome, options) ==
  IF outcome = "ok"
  THEN [servers |-> OptionServers(options, 1), failed |-> FALSE, thrown |-> FALSE]
  ELSE [servers |-> <<>>, failed |-> TRUE, thrown |-> TRUE]

\* scrapeAnimasuStreaming / fetchShkPageData and fetchShkEmbedUrl: the page
\* fetch that fails is caught and the scrape returns null; options whose
\* embed URL cannot be had are left out.
ScrapePage(outcome, options) ==
  IF outcome = "ok"
  THEN [servers |-> OptionServers(options, 1), failed |-> FALSE, thrown |-> FALSE]
  ELSE [servers |-> <<>>, failed |-> TRUE, thrown |-> FALSE]

\* getStreamingLinks on a cache miss: both scrapes start.
IStart ==
  /\ iPc = "idle"
  /\ iPc' = "scrape"
  /\ iProv' = [p \in Providers |-> [iProv[p] EXCEPT !.pc = "page"]]
  /\ UNCHANGED <<iStep, iFail, iResponse, notIso>>

\* The episode page of a provider and its embed URLs have been fetched.
IPage(p, outcome, options) ==
  /\ iPc = "scrape"
  /\ iProv[p].pc = "page"
  /\ outcome # "ok" => options = {}
  /\ LET r == ScrapePage(outcome, options) IN
     /\ iProv' = [iProv EXCEPT ![p] = [pc |-> IF r.servers = <<>> THEN "returned" ELSE "resolve",
                                       options |-> options, servers |-> r.servers,
                                       failed |-> r.failed, thrown |-> r.thrown]]
     /\ iStep' = [t \in Providers \X PageOptions |->
                    IF t[1] = p /\ t[2] \in DOMAIN r.servers THEN "resolve" ELSE iStep[t]]
  /\ UNCHANGED <<iPc, iFail, iResponse, notIso>>

\* resolveEmbedUrl of one server returns: the direct URL, or null when the
\* resolver failed.
IResolve(p, i, ok) ==
  /\ iPc = "scrape"
  /\ iProv[p].pc = "resolve"
  /\ iStep[<<p, i>>] = "resolve"
  /\ iProv' = [iProv EXCEPT ![p].servers[i].url_resolved = IF ok THEN "https://cdn/v.mp4" ELSE NULL]
  /\ iStep' = [iStep EXCEPT ![<<p, i>>] = "resolved"]
  /\ iFail' = IF ok THEN iFail ELSE iFail \cup {<<p, i, "resolver">>}
  /\ UNCHANGED <<iPc, iResponse, notIso>>

\* Every resolver of the provider has returned: the scrape returns its list.
IReturn(p) ==
  /\ iPc = "scrape"
  /\ iProv[p].pc = "resolve"
  /\ \A i \in DOMAIN iProv[p].servers : iStep[<<p, i>>] = "resolved"
  /\ iProv' = [iProv EXCEPT ![p].pc = "returned"]
  /\ UNCHANGED <<iPc, iStep, iFail, iResponse, notIso>>

\* Both scrapes have returned; a scrape that threw rejects the request.
\* The enrichment callbacks start: a server without a resolved URL gets a
\* null stream and is done.
IEnrichStart ==
  /\ iPc = "scrape"
  /\ \A p \in Providers : iProv[p].pc = "returned"
  /\ IF \E p \in Providers : iProv[p].thrown
     THEN /\ iPc' = "done"
          /\ iResponse' = [status |-> 500, data |-> [p \in Providers |-> <<>>]]
          /\ UNCHANGED iStep
     ELSE /\ iPc' = "enrich"
          /\ iStep' = [t \in Providers \X PageOptions |->
                         IF iStep[t] = "none" THEN "none"
                         ELSE IF iProv[t[1]].servers[t[2]].url_resolved = NULL THEN "done"
                         ELSE "store"]
          /\ UNCHANGED iResponse
  /\ UNCHANGED <<iProv, iFail, notIso>>

\* How the callback of a server with a resolved URL goes on.
EnrichOutcomes == {"stored", "queued", "enqueued", "webhook_failed", "threw"}

\* The callback of one server runs to its end: the durable URL when the
\* store has the video, otherwise the stream wraps the resolved URL, whether
\* an entry was queued already, the enqueue and the webhook were sent, the
\* webhook's fetch failed (swallowed), or a step threw (caught).
IEnrich(p, i, outcome) ==
  /\ iPc = "enrich"
  /\ iStep[<<p, i>>] = "store"
  /\ iProv' = [iProv EXCEPT ![p].servers[i] =
                 IF outcome = "stored"
                 THEN [@ EXCEPT !.url_resolved = "https://hf/1", !.stream = buildStreamUrl("https://hf/1")]
                 ELSE [@ EXCEPT !.stream = buildStreamUrl(iProv[p].servers[i].url_resolved)]]
  /\ iStep' = [iStep EXCEPT ![<<p, i>>] = "done"]
  /\ iFail' = IF outcome = "webhook_failed" THEN iFail \cup {<<p, i, "webhook">>} ELSE iFail
  /\ UNCHANGED <<iPc, iResponse, notIso>>

\* Every callback has settled: the controller answers 200 with both lists.
IRespond ==
  /\ iPc = "enrich"
  /\ \A t \in Providers \X PageOptions : iStep[t] \in {"none", "done"}
  /\ iResponse' = [status |-> 200, data |-> [p \in Providers |-> iProv[p].servers]]
  /\ iPc' = "done"
  /\ UNCHANGED <<iProv, iStep, iFail, notIso>>

NextIsolation ==
  \/ IStart
  \/ \E p \in Providers, outcome \in PageOutcomes, options \in SUBSET PageOptions :
       IPage(p, outcome, options)
  \/ \E p \in Providers, i \in PageOptions, ok \in BOOLEAN : IResolve(p, i, ok)
  \/ \E p \in Providers : IReturn(p)
  \/ IEnrichStart
  \/ \E p \in Providers, i \in PageOptions, outcome \in EnrichOutcomes : IEnrich(p, i, outcome)
  \/ IRespond

SpecIsolation == Init /\ [][NextIsolation]_vars

\* C20: the streaming response is never an error; a provider whose scrape
\* failed is null and the other keeps every server its page gave; a server
\* whose resolver failed has a null resolved URL and stream, and every other
\* server, the one whose webhook failed included, keeps its URL and stream.
FailuresIsolated ==
  iPc = "done" =>
    /\ iResponse.status = 200
    /\ \A p \in Providers :
         /\ iProv[p].failed => iResponse.data[p] = <<>>
         /\ ~iProv[p].failed => Len(iResponse.data[p]) = Cardinality(iProv[p].options)
         /\ \A i \in DOMAIN iResponse.data[p] :
              IF <<p, i, "resolver">> \in iFail
              THEN /\ iResponse.data[p][i].url_resolved = NULL
                   /\ iResponse.data[p][i].stream = NULL
              ELSE /\ iResponse.data[p][i].url_resolved # NULL
                   /\ iResponse.data[p][i].stream # NULL

FailuresIsolatedWitness ==
  /\ iPc = "done"
  /\ iProv["animasu"].failed
  /\ iResponse.data["animasu"] = <<>>
  /\ Len(iResponse.data["samehadaku"]) = 2
  /\ <<"samehadaku", 1, "resolver">> \in iFail
  /\ <<"samehadaku", 2, "webhook">> \in iFail
  /\ iResponse.data["samehadaku"][1].url_resolved = NULL
  /\ iResponse.data["samehadaku"][2].stream # NULL
  /\ iResponse.status = 200

\* ------------------------------------------------------------------
\* Cache invalidation endpoint
\* ------------------------------------------------------------------
\* The shared salt of the deployment (its value comes from the environment).
HF_FILE_SALT == "salt-of-the-deployment"

\* A JSON value of the body as the handler tests it: typeof, whether a
\* number is an integer, and the value ("undefined": the field is missing).
MalIdFields ==
  {[type |-> "number", integer |-> TRUE, value |-> 55825],
   [type |-> "number", integer |-> TRUE, value |-> 0],
   [type |-> "string", integer |-> FALSE, value |-> 55825],
   [type |-> "undefined", integer |-> FALSE, value |-> 0]}

EpisodeFields ==
  {[type |-> "number", integer |-> TRUE, value |-> 1],
   [type |-> "number", integer |-> TRUE, value |-> 2],
   [type |-> "number", integer |-> FALSE, value |-> 1],
   [type |-> "undefined", integer |-> FALSE, value |-> 0]}

\* The secrets a body can carry: the salt, another string, the empty
\* string, none.
Secrets == {HF_FILE_SALT, "guess", "", "undefined"}

\* The bodies sent: parsed JSON objects, or text that req.json() rejects.
InvalidateBodies ==
  [parsed : {TRUE}, secret : Secrets, mal_id : MalIdFields, episode : EpisodeFields]
  \cup {[parsed |-> FALSE, secret |-> HF_FILE_SALT,
         mal_id |-> [type |-> "number", integer |-> TRUE, value |-> 55825],
         episode |-> [type |-> "number", integer |-> TRUE, value |-> 1]]}

\* The handler compares the secret with a fixed string whatever the salt.
SecretOkAlways(secret) == TRUE

\* secret !== HF_FILE_SALT, negated.
SecretOk(secret) == secret = HF_FILE_SALT

PositiveInteger(f) == f.type = "number" /\ f.integer /\ f.value > 0

\* The status the handler answers with.
InvalidateStatus(body) ==
  IF ~body.parsed THEN 400
  ELSE IF ~SecretOk(body.secret) THEN 401
  ELSE IF ~(PositiveInteger(body.mal_id) /\ PositiveInteger(body.episode)) THEN 400
  ELSE 200

\* invalidateStreamingCache: the entry of the key is deleted; the model's
\* cache holds the entry of 55825:1.
invalidateStreamingCache(malId, episode) ==
  IF malId = 55825 /\ episode = 1
  THEN [idx |-> 0, expiresAt |-> 0, setAt |-> 0]
  ELSE streamingCache

\* POST /api/v1/streaming/invalidate with the body given.
Invalidate(body) ==
  /\ invStatus' = InvalidateStatus(body)
  /\ streamingCache' = IF InvalidateStatus(body) = 200
                       THEN invalidateStreamingCache(body.mal_id.value, body.episode.value)
                       ELSE streamingCache
  /\ UNCHANGED <<apiClock, scrapes, sPc, sNow, sScrape, sTask, sArchived, rpcs, webhooks>>
  /\ UNCHANGED <<dbVars, lockVars, jikVars, fetVars, mapVars, disVars, isoVars, prxVars, detVars>>

\* Streaming requests fill the cache; invalidation requests arrive in between.
NextInvalidate ==
  \/ \E q \in {1, 2} : SReqStart(q)
  \/ \E q \in {1, 2}, res \in {r \in ScrapeResults : Len(r["animasu"]) <= 1} : SReqScraped(q, res)
  \/ \E body \in InvalidateBodies : Invalidate(body)

SpecInvalidate == Init /\ [][NextInvalidate]_vars

\* C21: the invalidate endpoint removes the cache entry only when the
\* secret equals the salt; a request with another secret or none is
\* answered 401 and leaves the cache as it was, whatever its other fields.
InvalidateNeedsSecret ==
  [][\A body \in InvalidateBodies :
       Invalidate(body) =>
         /\ streamingCache' # streamingCache => body.secret = HF_FILE_SALT
         /\ (body.parsed /\ body.secret # HF_FILE_SALT) =>
              (invStatus' = 401 /\ streamingCache' = streamingCache)
         /\ (/\ body.parsed /\ body.secret = HF_FILE_SALT
             /\ body.mal_id.type = "number" /\ body.mal_id.integer /\ body.mal_id.value = 55825
             /\ body.episode.type = "number" /\ body.episode.integer /\ body.episode.value = 1)
              => (invStatus' = 200 /\ streamingCache'.idx = 0)]_vars

\* The entry stored by a request has been removed by an authenticated call.
InvalidateNeedsSecretWitness ==
  /\ invStatus = 200
  /\ streamingCache.idx = 0
  /\ \E q \in SReqs : sPc[q] = "enrich"

\* ------------------------------------------------------------------
\* Stream proxy (Cloudflare worker): the fetch handler
\* ------------------------------------------------------------------
notPrx == <<dbVars, lockVars, strVars, jikVars, fetVars, mapVars, disVars, isoVars, invVars, detVars>>

\* A request arrives (the worker answers one request after the other): the
\* handler runs up to its first await, or to its response.
PxArrive(request) ==
  /\ pxPc \in {"idle", "done"}
  /\ pxRequest' = request
  /\ pxUpstream' = NoUpstream
  /\ IF request.method = "OPTIONS"
     THEN /\ pxPc' = "done"
          /\ pxTarget' = <<>>
          /\ pxResponse' = Response(204, NULL, NULL, NULL, NULL, NULL, "*", <<>>)
     ELSE IF request.pathname = "/health"
     THEN /\ pxPc' = "done"
          /\ pxTarget' = <<>>
          /\ pxResponse' = JsonResponse(200, <<"{", "\"", "s", "t", "a", "t", "u", "s", "\"", ":", "\"", "o", "k", "\"", "}">>)
     ELSE IF request.pathname = "/proxy"
     THEN LET target == proxyTarget(request.query)
          IN IF target.ok
             THEN /\ pxPc' = "proxyStream"
                  /\ pxTarget' = target.value
                  /\ pxResponse' = NoResponse
             ELSE /\ pxPc' = "done"
                  /\ pxTarget' = <<>>
                  /\ pxResponse' = TextResponse(400, target.value)
     ELSE IF request.pathname = StreamPath
     THEN /\ pxPc' = "lookup"
          /\ pxTarget' = <<>>
          /\ pxResponse' = NoResponse
     ELSE /\ pxPc' = "done"
          /\ pxTarget' = <<>>
          /\ pxResponse' = JsonResponse(404, <<"N", "o", "t", " ", "f", "o", "u", "n", "d">>)
  /\ UNCHANGED notPrx

\* The stream route after its lookups in video_store and video_queue.
PxLookup(stored, queued) ==
  /\ pxPc = "lookup"
  /\ LET url == IF stored # <<>> THEN stored ELSE queued
     IN IF url = <<>>
        THEN /\ pxPc' = "done"
             /\ pxTarget' = <<>>
             /\ pxResponse' = JsonResponse(404, <<"S", "t", "r", "e", "a", "m", " ", "n", "o", "t", " ", "a", "v", "a", "i", "l", "a", "b", "l", "e">>)
        ELSE /\ pxPc' = IF Includes(url, <<".", "m", "3", "u", "8">>) THEN "proxyM3u8" ELSE "proxyStream"
             /\ pxTarget' = url
             /\ pxResponse' = NoResponse
  /\ UNCHANGED <<pxRequest, pxUpstream>>
  /\ UNCHANGED notPrx

\* The upstream answers the fetch, or the connection fails: the rest of
\* proxyStream or of proxyM3u8.
PxUpstream(upstream) ==
  /\ pxPc \in {"proxyStream", "proxyM3u8"}
  /\ pxUpstream' = upstream
  /\ pxTarget' = IF pxPc = "proxyStream" THEN finalUrl(pxTarget, upstream) ELSE pxTarget
  /\ pxResponse' = IF pxPc = "proxyStream"
                   THEN proxyStream(pxTarget, upstream)
                   ELSE proxyM3u8(pxTarget, WorkerBase, upstream)
  /\ pxPc' = "done"
  /\ UNCHANGED pxRequest
  /\ UNCHANGED notPrx

NextProxy ==
  \/ \E request \in Requests : PxArrive(request)
  \/ \E stored \in StoredRows, queued \in QueuedRows : PxLookup(stored, queued)
  \/ \E upstream \in Upstreams :
       /\ pxTarget \in StoredRows \cup QueuedRows \/ upstream \in PlainUpstreams
       /\ PxUpstream(upstream)

SpecProxy == Init /\ [][NextProxy]_vars

\* ------------------------------------------------------------------
\* Detail request: AnimeController.getAnime and the episode lists
\* ------------------------------------------------------------------
notDet == <<dbVars, lockVars, strVars, jikVars, fetVars, mapVars, disVars, isoVars, invVars, prxVars>>
notDetMap == <<dbVars, lockRest, strVars, jikVars, fetVars, disVars, isoVars, invVars, prxVars>>

\* findMappingBySlug for the slug of the request: the stored row, <<>> for
\* null.
StoredMapping ==
  IF FindMapping(SlugKey)
  THEN <<mapping[CHOOSE i \in DOMAIN mapping : mapping[i].slug_animasu = "jigokuraku-s2"]>>
  ELSE <<>>

\* The slug of a provider in a mapping row (the rows of the store have no
\* slug_nontonanimeid, so that provider is never asked).
SlugFor(row, provider) == IF provider = "animasu" THEN row.slug_animasu ELSE row.slug_samehadaku

\* The mutant of the cache test: the cache is never used.
EpisodeCacheHitNever(provider) == FALSE

\* getEpisodesForProvider's cache test: an entry younger than the TTL.
EpisodeCacheHit(provider) ==
  /\ episodeCache[provider].cached
  /\ apiClock - episodeCache[provider].cachedAt < EPISODE_CACHE_TTL_MS

\* The providers getEpisodeList scrapes for a mapping row.
ScrapedProviders(row) == {p \in Providers : SlugFor(row, p) # NULL /\ ~EpisodeCacheHit(p)}

\* The request starts: validation passed, findMappingBySlug answers (or the
\* store fails, which the catch turns into 500).
GStart(storeOk) ==
  /\ gPc \in {"idle", "done"}
  /\ gOutbound' = {}
  /\ IF ~storeOk
     THEN /\ gPc' = "done"
          /\ gHit' = FALSE
          /\ gResponse' = [status |-> 500, cached |-> FALSE]
     ELSE /\ gPc' = IF StoredMapping # <<>> THEN "meta" ELSE "resolve"
          /\ gHit' = (StoredMapping # <<>>)
          /\ gResponse' = [status |-> 0, cached |-> FALSE]
  /\ UNCHANGED <<episodeCache, malMetadata, notDet>>

\* resolveMapping on a miss: the discovery asks the providers and MAL and
\* either upserts the mapping it found or gives up (404).
GResolve(found, slugSamehadaku) ==
  /\ gPc = "resolve"
  /\ gOutbound' = gOutbound \cup Providers \cup {"jikan"}
  /\ IF found
     THEN LET payload == [DiscoveryPayload("jigokuraku-s2") EXCEPT !.slugSamehadaku = slugSamehadaku]
          IN /\ mapping' = upsertMapping(payload)
             /\ lastUpsert' = <<UpsertParams(payload)>>
             /\ gPc' = "meta"
             /\ gResponse' = gResponse
     ELSE /\ gPc' = "done"
          /\ gResponse' = [status |-> 404, cached |-> FALSE]
          /\ UNCHANGED <<mapping, lastUpsert>>
  /\ UNCHANGED <<episodeCache, malMetadata, gHit, notDetMap>>

\* Step 2: findMalMetadata answers with the stored row, with null (then
\* Jikan is asked and its answer, if any, is persisted fire-and-forget), or
\* the store fails.
GMeta(answer, jikan) ==
  /\ gPc = "meta"
  /\ answer = "row" => malMetadata
  /\ answer = "null" => ~malMetadata
  /\ IF answer = "error"
     THEN /\ gPc' = "done"
          /\ gResponse' = [status |-> 500, cached |-> FALSE]
          /\ UNCHANGED <<gOutbound, malMetadata>>
     ELSE /\ gPc' = "episodes"
          /\ gResponse' = gResponse
          /\ gOutbound' = IF answer = "null" THEN gOutbound \cup {"jikan"} ELSE gOutbound
          /\ malMetadata' = (malMetadata \/ (answer = "null" /\ jikan = "saved"))
  /\ UNCHANGED <<episodeCache, gHit, notDet>>

\* Step 3 and 4: getEpisodeList scrapes every provider of the mapping whose
\* cache entry is missing or expired (scrapeOk: the scrapes that succeed),
\* and the response is composed.
GEpisodes(scrapeOk) ==
  /\ gPc = "episodes"
  /\ LET scraped == ScrapedProviders(StoredMapping[1])
     IN /\ scrapeOk \subseteq scraped
        /\ gOutbound' = gOutbound \cup scraped
        /\ episodeCache' = [p \in Providers |->
                              IF p \in scrapeOk THEN [cached |-> TRUE, cachedAt |-> apiClock]
                              ELSE IF p \in scraped /\ episodeCache[p].cached
                              THEN [cached |-> FALSE, cachedAt |-> 0]
                              ELSE episodeCache[p]]
  /\ gPc' = "done"
  /\ gResponse' = [status |-> 200, cached |-> gHit]
  /\ UNCHANGED <<malMetadata, gHit, notDet>>

NextDetail ==
  \/ \E storeOk \in BOOLEAN : GStart(storeOk)
  \/ \E found \in BOOLEAN, slugSamehadaku \in {"jigokuraku-season-2", NULL} : GResolve(found, slugSamehadaku)
  \/ \E answer \in {"row", "null", "error"}, jikan \in {"saved", "unsaved", "none"} : GMeta(answer, jikan)
  \/ \E scrapeOk \in SUBSET Providers : GEpisodes(scrapeOk)
  \/ ApiTick

SpecDetail == Init /\ [][NextDetail]_vars

Answered == pxPc = "done" /\ pxTarget # <<>> /\ pxUpstream.connects

\* The response was built by proxyStream: every answer of the /proxy route,
\* and the answers of the stream route for a URL that is no playlist.
Streamed == Answered /\ (pxRequest.pathname = "/proxy" \/ ~Includes(pxTarget, <<".", "m", "3", "u", "8">>))

\* C22: a GET /proxy for a .m3u8 playlist that the upstream served is
\* answered with that playlist, line for line, tags and blank lines as they
\* were and every other line replaced by the proxy URL of its absolute
\* URI, with Content-Type application/vnd.apple.mpegurl.
ProxyRewritesPlaylist ==
  (/\ Answered
   /\ pxRequest.pathname = "/proxy"
   /\ Includes(pxTarget, <<".", "m", "3", "u", "8">>)
   /\ pxUpstream \in PlaylistUpstreams
   /\ Ok(pxUpstream))
  => /\ pxResponse.contentType = "application/vnd.apple.mpegurl"
     /\ Len(pxResponse.body) = Len(pxUpstream.body)
     /\ \A i \in 1..Len(pxUpstream.body) :
          LET line == pxUpstream.body[i]
          IN IF trim(line) = <<>> \/ StartsWith(trim(line), <<"#">>)
             THEN pxResponse.body[i] = line
             ELSE pxResponse.body[i] = rewriteLine(line, pxTarget, WorkerBase)

\* C23: the target the proxy derives from the emitted URL of an absolute
\* URL u is u itself, whatever escapes or query string u contains.
ProxyUrlRoundTrips ==
  \A u \in FixedUrls \cup TailUrls :
    (pxPc # "idle" /\ pxRequest = [method |-> "GET", pathname |-> "/proxy", query |-> ProxyQuery(u)])
    => /\ pxResponse.status # 400
       /\ pxPc = "proxyStream" => pxTarget = u

\* C24: every streaming response carries Accept-Ranges: bytes and
\* Content-Disposition: inline, whatever the upstream sent.
StreamHeadersFixed ==
  Streamed => /\ pxResponse.acceptRanges = "bytes"
              /\ pxResponse.contentDisposition = "inline"

\* C25: a fetch of the target that fails to connect is answered 502, and a
\* streaming response carries the status of the upstream.
UpstreamFailureIs502 ==
  /\ (pxPc = "done" /\ pxTarget # <<>> /\ ~pxUpstream.connects) => pxResponse.status = 502
  /\ Streamed => pxResponse.status = pxUpstream.status

\* ------------------------------------------------------------------
\* Properties of the streaming enrichment
\* ------------------------------------------------------------------
InProgress == {"pending", "downloading", "uploading", "ready"}

\* C7: when the enrichment acts on what the queue lookup read for a server
\* with a resolved URL and no store entry, it sends the enqueue and the
\* webhook unless the entry read is pending, downloading, uploading or
\* ready; a failed entry is enqueued again.
EnrichmentEnqueues ==
  [][\A q \in SReqs, t \in TaskIds :
       (/\ TaskQueueAct(q, t[1], t[2])
        /\ sTask[q][t].existing \notin InProgress)
       => /\ \E rpc \in rpcs' \ rpcs : rpc.task = <<q, t[1], t[2]>>
          /\ Len(webhooks') = Len(webhooks) + 1]_vars

\* C10: a streaming response of a request that started after the store
\* commit of a key shows, for every server with that key, the durable URL as
\* resolved URL and a stream URL built from it.
DurableAfterCommit ==
  \A q \in SReqs :
    sPc[q] = "done" =>
      \A p \in Providers : \A i \in DOMAIN scrapes[sScrape[q]][p] :
        LET server == scrapes[sScrape[q]][p][i] IN
        ServerKey(p, server) \in sArchived[q] =>
          /\ server.url_resolved \in HfUrls
          /\ server.stream = buildStreamUrl(server.url_resolved)

\* A request that scraped the episode for the first time, with nothing
\* archived before it started, and has returned its response.
ColdDone(q) == sPc[q] = "done" /\ sScrape[q] = 1 /\ sArchived[q] = {}

CacheExpiresAfterTtl ==
  [][\A q \in SReqs :
       (SReqStart(q) /\ streamingCache.idx # 0)
       => (sPc'[q] = "enrich" <=> apiClock - streamingCache.setAt < EPISODE_CACHE_TTL_MS)]_vars

\* C11: a streaming response is produced only after the store was consulted,
\* during that request, for every server of its lists, on a cache hit as on
\* a fresh scrape.
StoreCheckedEveryRequest ==
  \A q \in SReqs :
    sPc[q] = "done" =>
      \A t \in TaskIds : sTask[q][t].step # "none" => sTask[q][t].checked

\* C27: the check for a queue entry and the enqueue act as one step, so a
\* key that has no queue entry has had at most one webhook sent for it.
OneWebhookPerFreshKey ==
  \A w1, w2 \in DOMAIN webhooks :
    (w1 # w2 /\ webhooks[w1].key = webhooks[w2].key)
    => RowsOfKey(queue, webhooks[w1].key) # {}

\* C29: a webhook is sent only after the enqueue of its key has completed:
\* every webhook sent is for a key that has a queue entry.
WebhookAfterEnqueue ==
  \A w \in DOMAIN webhooks : RowsOfKey(queue, webhooks[w].key) # {}

\* C30: a request that finds a scrape-cache entry in which the scrape of a
\* provider with a slug is null does not serve it but scrapes again.
FailedScrapeNotCached ==
  [][\A q \in SReqs :
       (/\ SReqStart(q)
        /\ streamingCache.idx # 0
        /\ \E p \in Providers : StreamSlugs[p] # NULL /\ scrapes[streamingCache.idx][p] = <<>>)
       => sPc'[q] = "scrape"]_vars

\* ------------------------------------------------------------------
\* Liveness of the archival queue: the API keeps enqueueing and the claim
\* calls keep coming; the worker that claimed an entry may stop, so its
\* reports (update_video_queue_status, upsert_video_store) are not forced.
\* ------------------------------------------------------------------
FairQueue ==
  /\ WF_vars(\E k \in TaggedKeys : Enqueue(k, "https://a/"))
  /\ WF_vars(ClaimLock("w1", 1))
  /\ WF_vars(ClaimCommit("w1"))

SpecQueueLive == Init /\ [][NextRetry]_vars /\ FairQueue

\* C28: every entry that is downloading or uploading eventually is not
\* (it is ready, failed or pending again), even when the worker reports
\* nothing more.
ClaimedEntryLeaves ==
  \A id \in 1..MaxRows :
    (id \in DOMAIN queue /\ queue[id].status \in {"downloading", "uploading"})
    ~> (id \in DOMAIN queue /\ queue[id].status \notin {"downloading", "uploading"})

\* ------------------------------------------------------------------
\* Properties of the request lock
\* ------------------------------------------------------------------
Overlap(r1, r2) == r1 \in reqPeers[r2] \/ r2 \in reqPeers[r1]

\* C8: requests for the same (slug, provider) that are in flight at the same
\* time and found no stored mapping share one discovery.
OneDiscoveryPerKey ==
  \A r1, r2 \in Reqs :
    (/\ r1 # r2
     /\ reqKey[r1] = SlugKey /\ reqKey[r2] = SlugKey
     /\ Overlap(r1, r2)
     /\ reqJob[r1] # 0 /\ reqJob[r2] # 0)
    => reqJob[r1] = reqJob[r2]

\* C9: the lock table holds an entry for a key exactly while a discovery for
\* that key is in flight, and the entry is that discovery's promise.
LockIffInFlight ==
  /\ \A k \in LockKeys :
       enrichmentLocks[k] # 0 =>
         /\ enrichmentLocks[k] \in DOMAIN jobs
         /\ jobs[enrichmentLocks[k]].key = k
         /\ ~Settled(enrichmentLocks[k])
  /\ \A j \in DOMAIN jobs : ~Settled(j) => enrichmentLocks[jobs[j].key] = j

\* A discovery has thrown, its entry is gone and a later call for the same
\* key has started a new discovery.
LockIffInFlightWitness ==
  \E j1, j2 \in DOMAIN jobs :
    /\ j1 < j2
    /\ jobs[j1].key = jobs[j2].key
    /\ jobs[j1].state = "rejected"
    /\ enrichmentLocks[jobs[j2].key] = j2

\* ------------------------------------------------------------------
\* Properties of the archival queue
\* ------------------------------------------------------------------

\* C1: the sets of entry ids returned by claim calls that are in flight at
\* the same time are pairwise disjoint, and every entry a claim returns was
\* pending when the claim took it.
ClaimsDisjoint ==
  /\ \A w1, w2 \in Workers : w1 # w2 => claimRows[w1] \cap claimRows[w2] = {}
  /\ \A w \in Workers : \A i \in claimRows[w] : queue[i].status = "pending"

\* Two claims are in flight at once and each has taken at least one entry.
ClaimsDisjointWitness ==
  \A w \in Workers : claimPc[w] = "locked" /\ claimRows[w] # {}

\* C2: the queue holds at most one entry per key (mal_id, episode, provider,
\* resolution), a null resolution counting as a key value of its own.
QueueKeyUnique ==
  \A i, j \in DOMAIN queue : KeyOf(queue[i]) = KeyOf(queue[j]) => i = j

\* C3: every change of an entry's status follows an edge of the status
\* machine; in particular ready never changes again.
StatusEdges ==
  {<<"pending", "downloading">>, <<"downloading", "uploading">>,
   <<"uploading", "ready">>, <<"downloading", "failed">>,
   <<"uploading", "failed">>, <<"failed", "pending">>}

StatusMachine ==
  [][\A i \in DOMAIN queue :
       queue'[i].status # queue[i].status =>
         <<queue[i].status, queue'[i].status>> \in StatusEdges]_vars

\* C4: if a store entry exists for a key then a queue entry for the same key
\* exists and is ready.
StoreImpliesReady ==
  \A s \in DOMAIN store :
    /\ RowsOfKey(queue, KeyOf(store[s])) # {}
    /\ \A i \in RowsOfKey(queue, KeyOf(store[s])) : queue[i].status = "ready"

\* C5: enqueue on a key whose entry is ready adds no row and leaves the
\* existing row exactly as it was, updated_at included.
EnqueueReadyNoOp ==
  [][\A k \in QueueKeys, u \in VideoUrls :
       (/\ Enqueue(k, u)
        /\ \E i \in RowsOfKey(queue, k) : queue[i].status = "ready")
       => /\ Len(queue') = Len(queue)
          /\ \A i \in RowsOfKey(queue, k) :
               queue[i].status = "ready" => queue'[i] = queue[i]]_vars

\* C6: enqueue on a key whose entry is failed sets that same row to pending
\* with the newly supplied video_url.
EnqueueFailedRevives ==
  [][\A k \in QueueKeys, u \in VideoUrls :
       Enqueue(k, u) =>
         \A i \in RowsOfKey(queue, k) :
           queue[i].status = "failed" =>
             queue'[i].status = "pending" /\ queue'[i].video_url = u]_vars

TypeOK ==
  /\ Len(queue) <= MaxRows
  /\ Len(store) <= MaxStoreRows
  /\ clock \in 0..MaxClock
  /\ Len(jobs) <= MaxReqs
  /\ Len(scrapes) <= MaxSReqs
  /\ apiClock \in 0..(MaxApiTicks * TickMs)
====
